---- MODULE Spec2Model ----
(***************************************************************************)
(* Verification model of the viewer's interaction core:                    *)
(*   - the detail panel and its session-history protocol (detailPanel.js,  *)
(*     shipped inside src/config/config.js),                               *)
(*   - the pointer click / hover engine of setupTooltips (src/js/utils.js),*)
(*   - the light/dark mode crossfade of main.js (src/unnamed/part_000).    *)
(* Times are integers in units of 10 microseconds (PerMs units to the      *)
(* millisecond).  Screen positions are pixel pairs <<x, y>>.               *)
(***************************************************************************)
EXTENDS Integers, Sequences, FiniteSets, TLC

VARIABLES
    now,             \* performance.now()
    \* ---- detailPanel.js ----
    isOpen,          \* let isOpen
    panelHidden,     \* panel.classList contains 'hidden'
    content,         \* titleEl.textContent (which content is shown)
    closedAt,        \* let closedAt
    hist,            \* session history: sequence of history-entry states
    histIdx,         \* index of the current session-history entry
    \* ---- setupTooltips click handling ----
    pointerDownPos,  \* let pointerDownPos
    pressed,         \* a pointer press is in progress (down seen, up not yet)
    \* ---- setupTooltips hover handling ----
    pointer,         \* const pointer: position of the last pointermove
    activeType,      \* let activeType
    hoveredSprite,   \* let hoveredSprite
    animating,       \* const animating = new Set()
    opacity,         \* material.opacity of each marker group's shared material
    scale,           \* sprite.scale.x of each marker
    tooltip,         \* marker shown in the tooltip, None while it is hidden
    \* ---- csvLoader.js loadCSVPoints ----
    markerMap,       \* material.map of each marker group's shared material
    \* ---- main.js legend ----
    groupVisible,    \* group.visible of each marker group
    legendFlag,      \* let visible of each legend dot's click listener
    \* ---- main.js dark mode ----
    modeT,           \* let modeT, in units of 1/ModeOne
    modeTarget,      \* let modeTarget
    modeRafId,       \* let modeRafId: NoRaf for null, else the pending request
    modePrevTime,    \* let modePrevTime
    darkClass,       \* document.body.classList contains 'dark'
    bgT,             \* scalar of the last scene.background.lerpColors
    mixT,            \* crossfadeUniforms.mixT.value of the terrain materials
    buildingT,       \* scalar of the last building colour lerp, NoLerp before any
    sideT,           \* scalar of the last side-material colour lerp, NoLerp before any
    \* ---- camera ----
    cam,             \* camera pose (which part of the scene is under the screen)
    frustumH,        \* (camera.top - camera.bottom) / camera.zoom
    \* ---- viewer.js double-click top-down view, utils.js animateIntro ----
    camPos,          \* camera.position
    camQuat,         \* camera.quaternion
    controlsEnabled, \* controls.enabled
    residual,        \* frames the damped sphericalDelta of the controls still lasts
    ctlTarget,       \* controls.target
    topDownAnim,     \* let topDownAnim: 0 for null, else the task's number
    tasks,           \* the task objects created so far, in creation order
    introDone,       \* let done of animateIntro
    introT0,         \* const t0 of animateIntro
    phase,           \* position inside the current display frame
    \* ---- main.js init, loadModel, loadCSVPoints ----
    bootPc,          \* where init() stands: "start", "model", "csv", "interactive", "failed"
    progressPct,     \* width of the preloader's bar, percent
    progressLabel,   \* text of the preloader's label
    preloaderDone,   \* preloaderEl.classList contains 'done' (preloader dismissed)
    doneTimer,       \* when the pending setTimeout that dismisses it is due, NoTimer if none
    originOffset,    \* CONFIG.originOffset
    terrainLoaded,   \* the terrain wrapper is in the scene
    wrapperPos,      \* wrapper.position
    datasetsLoaded,  \* how many datasets loadAllCSV has added to the scene
    csvRows,         \* the rows parseCSV returned for each dataset loaded
    markers,         \* children of each dataset's group, in order
    bootError,       \* what made init fail: "none", "texture", "model", "csv"
    \* ---- frameBoundingBox ----
    view,            \* camera.position, controls.target and the camera's frustum
    bbox,            \* bounding box of the object that gets framed
    \* ---- apiWeather.js fetchWeather ----
    weatherUrl,      \* CONFIG.weatherApiUrl
    weatherPc,       \* where the running call stands: "idle", "fetching", "reading"
    weatherStatus,   \* res.status of the running call's response, 0 before it
    weatherLog,      \* how each call made so far settled, in order
    \* ---- observation variables (not program state) ----
    visBefore,       \* the groups' visible flags before the last legend click
    framings,        \* how many times init called frameBoundingBox
    framedAfter,     \* datasets in the scene when it did, -1 before
    priorView,       \* view before the last frameBoundingBox call
    frameLog,        \* what the callbacks of the current frame did, in order
    renderedPos,     \* camera.position at the last renderer.render
    lastFinished,    \* the animation task that completed last, -1 if none
    pressPos,        \* where the current press really went down (between
                     \* presses: the recorded pointerDownPos)
    lastEvent,       \* the handler that ran last: [kind, pos, target]
    openCalls,       \* payloads openDetail was called with by the last handler
    lastClose,       \* time closeDetail last closed the panel, -1 if never
    closedBy,        \* how the panel was last closed: "none", "explicit", "popstate"
    lastFrameAt      \* performance.now() at the last animation frame

panelVars   == <<isOpen, panelHidden, content, closedAt, hist, histIdx>>
pointerVars == <<pointerDownPos, pressed, pressPos>>
obsVars     == <<lastEvent, openCalls, lastClose, closedBy>>
hoverVars   == <<pointer, activeType, hoveredSprite, animating, opacity, scale, tooltip>>
camVars     == <<cam, frustumH>>
bootVars    == <<bootPc, progressPct, progressLabel, preloaderDone, doneTimer, originOffset,
                 terrainLoaded, wrapperPos, datasetsLoaded, csvRows, markers, bootError,
                 framings, framedAfter>>
frameVars   == <<view, bbox, priorView>>
weatherVars == <<weatherUrl, weatherPc, weatherStatus, weatherLog>>
legendVars  == <<groupVisible, legendFlag, visBefore, markerMap>>
loadVars    == <<bootVars, frameVars, weatherVars, legendVars>>
animVars    == <<camPos, camQuat, controlsEnabled, residual, ctlTarget, topDownAnim,
                 tasks, introDone, introT0, phase, frameLog, renderedPos, lastFinished>>
modeVars    == <<modeT, modeTarget, modeRafId, modePrevTime, darkClass,
                 bgT, mixT, buildingT, sideT, lastFrameAt>>
sceneVars   == <<camVars, animVars, panelVars, pointerVars, hoverVars, modeVars, legendVars>>
vars        == <<now, camVars, animVars, panelVars, pointerVars, hoverVars, modeVars, obsVars,
                 loadVars>>

(***************************************************************************)
(* Bounds of the model.                                                    *)
(***************************************************************************)
MaxTimeMs == 800    \* the clock stops advancing here (milliseconds)
MaxHist == 3        \* no history entry is pushed beyond this length
MaxCamTimeMs == 3400 \* the clock of the camera animations stops here (milliseconds)
MaxDbl == 2         \* no more double-clicks than this
DampFrames == 1     \* frames a damped orbit delta lasts after a drag
MaxBootTimeMs == 3200 \* the clock of the page load stops here (milliseconds)
MaxWeatherCalls == 3  \* no more calls of fetchWeather than this

PerMs == 10 * 10    \* clock units per millisecond
Ms(x) == x * PerMs

TimeSteps == {Ms(100)}           \* how far the clock moves between two events
LoadTimes == {Ms(100), Ms(400)}  \* performance.now() when the page becomes interactive

None == "none"

\* The record kept in lastEvent.
NoPos == <<-1, -1>>
Ev(kind, p, tg) == [kind |-> kind, pos |-> p, target |-> tg]

\* Arithmetic on numbers and on vectors <<x, y, z>>.
Abs(x) == IF x < 0 THEN -x ELSE x
Min(a, b) == IF a < b THEN a ELSE b
Max(a, b) == IF a > b THEN a ELSE b

Cross(a, b) == <<a[2] * b[3] - a[3] * b[2],
                 a[3] * b[1] - a[1] * b[3],
                 a[1] * b[2] - a[2] * b[1]>>
Sub(a, b) == <<a[1] - b[1], a[2] - b[2], a[3] - b[3]>>

RECURSIVE Gcd(_, _)
Gcd(a, b) == IF b = 0 THEN a ELSE Gcd(b, a % b)

\* normalize(): the direction of v, as the shortest integer vector along it.
Normalize(v) ==
    LET g == Gcd(Gcd(Abs(v[1]), Abs(v[2])), Abs(v[3]))
    IN IF g = 0 THEN v ELSE <<v[1] \div g, v[2] \div g, v[3] \div g>>

(***************************************************************************)
(* The scene: markers, their categories, and what a ray hits.              *)
(***************************************************************************)
Types == {"CSO", "NPDES", "RCRA"}

Sprites == {"s1", "s2", "s3", "s4"}

\* sprite.userData.type, set from the dataset label
SpriteType(s) ==
    CASE s = "s1" -> "CSO"
      [] s = "s2" -> "NPDES"
      [] s = "s3" -> "CSO"
      [] s = "s4" -> "RCRA"

\* Pointer positions used by the events (clientX, clientY).
Positions == {<<0, 0>>, <<3, 4>>, <<7, 0>>}

\* Camera poses: pose c shifts the scene by c cells under the screen.
Cams == {0, 1}

\* The scene cell a ray through screen position p meets under camera pose c.
Cell(p, c) ==
    (CASE p = <<0, 0>> -> 1
       [] p = <<3, 4>> -> 2
       [] p = <<7, 0>> -> 3) + c

\* raycaster.intersectObjects(scene.children, true).find(i => i.object.userData?.type):
\* the nearest marker on the ray, or None.
RayHit(p, c) ==
    CASE Cell(p, c) = 1 -> "s1"
      [] Cell(p, c) = 3 -> "s2"
      [] Cell(p, c) = 4 -> "s3"
      [] Cell(p, c) = 5 -> "s4"
      [] OTHER -> None

\* Marker groups: one THREE.Group per dataset, named by the dataset label.
Groups == Types

GroupSprites(g) == {s \in Sprites : SpriteType(s) = g}

\* Lengths (frustum height, sprite scale) are integers in units of 0.000025
\* world units, so that the 0.0001 of the tick is 4 units.
UnitsPerWorld == 4 * 10000
ScaleEps == UnitsPerWorld \div 10000

\* Frustum heights the camera can have (0.05 and 0.1 world units): zooming
\* switches between them.
InitialFrustumH == 4 * 1000
FrustumHs == {InitialFrustumH \div 2, InitialFrustumH}

\* CONFIG.marker.screenSize * h, screenSize = 0.008
BaseSizeFor(h) == (8 * h) \div 1000

\* Opacities, in percent.
DIM_OPACITY == 45
FULL_OPACITY == 100

(***************************************************************************)
(* Dark mode scalar: modeT is an integer in units of 1/ModeOne, where      *)
(* ModeOne is chosen so that dt = (now - modePrevTime) / 200 is one unit   *)
(* per clock unit.                                                         *)
(***************************************************************************)
ModeDurationMs == 200
ModeOne == Ms(ModeDurationMs)        \* 1
ModeHalf == ModeOne \div 2           \* 0.5
ModeEps == ModeOne \div 10000        \* 0.0001
NoRaf == "null"
\* The building and side materials as the loader creates them: a colour that
\* is no point of the light-to-dark lerp (a value outside every lerp scalar).
NoLerp == 0 - 2 * ModeOne
Pending == "requested"

(***************************************************************************)
(* detailPanel.js                                                          *)
(***************************************************************************)
\* A payload is a dataset type string or a content object (the anchored image).
ImageObject == "{title,body,image}"

NullState == [detailPanel |-> FALSE, type |-> None]
DetailState(t) == [detailPanel |-> TRUE, type |-> t]

\* The panel module's state as one record, so that its functions are operators.
Panel == [isOpen |-> isOpen, panelHidden |-> panelHidden, content |-> content,
          closedAt |-> closedAt, hist |-> hist, histIdx |-> histIdx]

\* content.title for a payload: DATASET_CONTENT[payload] || fallbackContent(payload)
\* for a string, the object itself otherwise.
ContentTitle(payload) ==
    IF payload = ImageObject THEN "Lorem Ipsum" ELSE payload

\* histType of openDetail.
HistType(payload) ==
    IF payload = ImageObject THEN "image" ELSE payload

\* history.pushState(state): drops the forward entries, appends, moves to the new entry.
pushState(P, state) ==
    [P EXCEPT !.hist = Append(SubSeq(P.hist, 1, P.histIdx), state),
              !.histIdx = P.histIdx + 1]

\* history.replaceState(state): overwrites the current entry.
replaceState(P, state) ==
    [P EXCEPT !.hist = [P.hist EXCEPT ![P.histIdx] = state]]

openDetail_NoOpenGuard(P, payload) ==
    pushState([P EXCEPT !.content = ContentTitle(payload),
                        !.panelHidden = FALSE,
                        !.isOpen = TRUE],
              DetailState(HistType(payload)))

openDetail(P, payload) ==
    IF P.isOpen THEN P
    ELSE pushState([P EXCEPT !.content = ContentTitle(payload),
                             !.panelHidden = FALSE,
                             !.isOpen = TRUE],
                   DetailState(HistType(payload)))

closeDetail_NoGuard(P, t) ==
    [P EXCEPT !.panelHidden = TRUE, !.isOpen = FALSE, !.closedAt = t]

closeDetail(P, t) ==
    IF ~P.isOpen THEN P
    ELSE [P EXCEPT !.panelHidden = TRUE, !.isOpen = FALSE, !.closedAt = t]

isDetailOpen == isOpen

DefaultMs == 300    \* justClosed(ms = 300)

justClosed_Never(ms) == FALSE

justClosed(ms) == (now - closedAt) < Ms(ms)

\* Writes a panel record back into the variables.
SetPanel(P) ==
    /\ isOpen' = P.isOpen
    /\ panelHidden' = P.panelHidden
    /\ content' = P.content
    /\ closedAt' = P.closedAt
    /\ hist' = P.hist
    /\ histIdx' = P.histIdx

\* Observation of a handler that may have closed the panel.
ObserveClose(P, how) ==
    IF isOpen /\ ~P.isOpen
    THEN lastClose' = now /\ closedBy' = how
    ELSE UNCHANGED <<lastClose, closedBy>>

(***************************************************************************)
(* Camera animations: the double-click top-down view of viewer.js and the  *)
(* intro pivot of animateIntro (utils.js).  World lengths of this part are *)
(* in units of 0.1, vectors are triples <<x, y, z>>.                       *)
(***************************************************************************)
TopDownMs == 800      \* duration of a top-down task
IntroMs == 1750       \* duration handed to animateIntro by init

\* Number of the intro task; top-down tasks are numbered from 1.
IntroTask == 0

\* A camera position or orientation is named by the animation task that
\* produced it, the clamped elapsed time `at` it was interpolated for, and
\* how it was written:
\*   "lerp"  lerpVectors / slerpQuaternions between the task's start and end,
\*   "end"   a copy of the task's end value,
\*   "orbit" recomputed by controls.update() (spherical round trip of the
\*           position about controls.target, lookAt for the orientation).
Pose(task, at, kind) == [by |-> task, at |-> at, kind |-> kind]
LerpPose(task, at) == Pose(task, at, "lerp")
EndPose(task) == Pose(task, Ms(IF task = IntroTask THEN IntroMs ELSE TopDownMs), "end")

\* controls.update(): position and orientation it leaves, given the position
\* it starts from.
UpdatePose(p) == [p EXCEPT !.kind = "orbit"]

\* Pivot points the user can pan controls.target to, and distances of the
\* camera from the pivot.
Targets == {<<0, 0, 0>>, <<500, 0, 300>>}
InitialTarget == <<0, 0, 0>>
Dists == {2 * 10000, 3 * 10000}

(***************************************************************************)
(* Loading: init of main.js, loadModel, loadCSVPoints and toSceneCoords.    *)
(* Survey coordinates are whole US survey feet.  Scene coordinates of the   *)
(* loaders are integers in units of 1/FeetToMetersDen metre: CONFIG's       *)
(* feetToMeters is the survey foot 1200/3937 m written to eight decimals,   *)
(* and the model keeps the fraction.                                       *)
(***************************************************************************)
FeetToMetersNum == 1200
FeetToMetersDen == 3937
heightOffset == 3              \* CONFIG.marker.heightOffset, metres

\* A length of m metres in scene units.
Metres(m) == m * FeetToMetersDen
\* x survey feet times CONFIG.feetToMeters, in scene units.
FeetToScene(x) == x * FeetToMetersNum

\* CONFIG.originOffset in metres: the shipped one, and no offset at all.
ConfigOffset == <<304789, -158, -61801>>
OriginOffsets == {ConfigOffset, <<0, 0, 0>>}

\* toSceneCoords(xEpsg, yEpsg), for the origin offset off: the z axis of the
\* scene runs against the survey's northing.
toSceneCoords_NoInvert(xEpsg, yEpsg, off) ==
    << FeetToScene(xEpsg) - Metres(off[1]),
       Metres(heightOffset) - Metres(off[2]),
       FeetToScene(yEpsg) - Metres(off[3]) >>

toSceneCoords(xEpsg, yEpsg, off) ==
    << FeetToScene(xEpsg) - Metres(off[1]),
       Metres(heightOffset) - Metres(off[2]),
       (0 - FeetToScene(yEpsg)) - Metres(off[3]) >>

\* wrapper.position of loadModel: the terrain is moved by minus the offset.
WrapperPosition_NoShift(off) == <<0, 0, 0>>

WrapperPosition(off) == <<0 - Metres(off[1]), 0 - Metres(off[2]), 0 - Metres(off[3])>>

\* A field of a parsed CSV row is the text of one cell:
\*   "number"  a decimal numeral and nothing else, n its value     ("1000250")
\*   "prefix"  a numeral followed by other characters              ("1000250ft")
\*   "text"    text that does not start with a numeral             ("n/a")
\*   "empty"   '' (an empty cell, or the row is short of the column)
Field(kind, n) == [kind |-> kind, n |-> n]
NumField(n) == Field("number", n)
EmptyField == Field("empty", 0)

\* parseFloat(field): the longest numeral the text starts with, NaN if none.
parseFloat(f) ==
    IF f.kind \in {"number", "prefix"} THEN [nan |-> FALSE, n |-> f.n]
                                       ELSE [nan |-> TRUE, n |-> 0]

\* The check of loadCSVPoints that lets a row become a marker.
RowPasses(row) == ~(parseFloat(row.X).nan \/ parseFloat(row.Y).nan)

\* The sprite loadCSVPoints makes of a row: its position and its userData.
MarkerOf(row, label, off) ==
    LET x == parseFloat(row.X).n
        y == parseFloat(row.Y).n
    IN [pos |-> toSceneCoords(x, y, off), type |-> label,
        coordX |-> x, coordY |-> y, row |-> row.id]

\* rows.forEach of loadCSVPoints: the children of the dataset's group.
RECURSIVE MarkersOf(_, _, _)
MarkersOf(rows, label, off) ==
    IF rows = <<>> THEN <<>>
    ELSE (IF RowPasses(Head(rows)) THEN <<MarkerOf(Head(rows), label, off)>> ELSE <<>>)
            \o MarkersOf(Tail(rows), label, off)

\* Object.entries(CONFIG.csvFiles): the datasets' labels in loading order.
CsvFiles == <<"CSO", "NPDES", "RCRA">>

\* Rows a data file can hold (id is the row's line in the file).
Row(id, x, y) == [id |-> id, X |-> x, Y |-> y]
RowLists ==
    { <<>>,
      <<Row(1, NumField(1000250), NumField(203000)),
        Row(2, Field("text", 0), NumField(203500)),
        Row(3, NumField(999000), NumField(201000))>>,
      <<Row(1, NumField(1000250), EmptyField),
        Row(2, NumField(1001000), NumField(202000))>>,
      <<Row(1, Field("prefix", 1000250), NumField(203000)),
        Row(2, NumField(999500), Field("prefix", 201000))>> }

NoRows == [i \in DOMAIN CsvFiles |-> <<>>]

\* The texts of the preloader's label.
ErrorLabel == "Error - see console"
CompleteLabel == "Complete"
NoTimer == -1

(***************************************************************************)
(* Framing: frameBoundingBox of utils.js on the orthographic camera.  The   *)
(* frustum and the vectors are in world units.  A camera position is kept   *)
(* as  at + far * (unit vector of direction), with far = 0 for a position   *)
(* given by its coordinates; a direction is the shortest integer vector     *)
(* along it, `low` telling that controls.update() lowered it to the         *)
(* controls' maxPolarAngle about the vertical axis.                         *)
(***************************************************************************)
FrameDistance == 10000
ZoomPadPct == 45               \* CONFIG.camera.initialZoom = 0.45
orthoSize == 3000              \* CONFIG.camera.orthoSize

Direction(v, low) == [along |-> v, low |-> low]
PlainPosition(v) == [at |-> v, along |-> <<0, 0, 0>>, low |-> FALSE, far |-> 0]
PolarPosition(c, d, far) == [at |-> c, along |-> d.along, low |-> d.low, far |-> far]

\* p.clone().sub(c).normalize() for a position p the model can subtract c
\* from: one given by coordinates, or one at a distance from c itself.
Subtractable(p, c) == p.far = 0 \/ p.at = c
DirectionFrom(p, c) ==
    IF p.far = 0 THEN Direction(Normalize(Sub(p.at, c)), FALSE)
                 ELSE Direction(p.along, p.low)

\* controls.maxPolarAngle = PI / 2.05: the angle between the direction to
\* the camera and the vertical axis is at most that, i.e. its cosine is at
\* least cos(PI / 2.05), whose square is 0.00147 (taken as 3/2000).  The
\* test is made on the vector scaled down to components of at most 1000.
Max3(v) == Max(Max(v[1], v[2]), v[3])
Coarse(v) ==
    LET s == Max3(<<Abs(v[1]), Abs(v[2]), Abs(v[3])>>) \div 1000 + 1
    IN <<v[1] \div s, v[2] \div s, v[3] \div s>>
WithinPolarLimit(v) ==
    LET w == Coarse(v)
    IN v[2] > 0 /\ 2000 * w[2] * w[2] >= 3 * (w[1] * w[1] + w[2] * w[2] + w[3] * w[3])

\* controls.update() with no pending rotation or pan: the position is
\* rebuilt from its spherical coordinates about the target, the polar angle
\* clamped to maxPolarAngle (the azimuth of a vertical direction is 0).
ControlsUpdate(p) ==
    IF p.low \/ WithinPolarLimit(p.along) THEN p
    ELSE LET az == Normalize(<<p.along[1], 0, p.along[3]>>)
         IN [p EXCEPT !.along = IF az = <<0, 0, 0>> THEN <<0, 0, 1>> ELSE az,
                      !.low = TRUE]

\* The orthographic frustum frameBoundingBox leaves for a box of the given
\* size: half-height maxDim, the width following the aspect ratio it had.
FramedFrustum_Square(f, size) ==
    LET maxDim == (Max3(size) * ZoomPadPct) \div 100
    IN [top |-> maxDim, bottom |-> 0 - maxDim, left |-> 0 - maxDim, right |-> maxDim]

FramedFrustum(f, size) ==
    LET maxDim == (Max3(size) * ZoomPadPct) \div 100
        width == f.right - f.left
        height == f.top - f.bottom
    IN [top |-> maxDim, bottom |-> 0 - maxDim,
        left |-> 0 - ((maxDim * width) \div height),
        right |-> (maxDim * width) \div height]

\* The position frameBoundingBox leaves: FrameDistance from the centre,
\* along the direction from the centre to where the camera was.
FramedPosition_Drift(v, center) ==
    ControlsUpdate(PolarPosition(center, DirectionFrom(v.position, center),
                                 v.position.far + FrameDistance))

FramedPosition(v, center) ==
    ControlsUpdate(PolarPosition(center, DirectionFrom(v.position, center), FrameDistance))

\* frameBoundingBox(object, camera, controls) for the object's box.
frameBoundingBox(v, box) ==
    [position |-> FramedPosition(v, box.center),
     target |-> box.center,
     frustum |-> FramedFrustum(v.frustum, box.size)]

\* Width : height of the container, and the camera and controls
\* createViewer makes for it (the isometric position in whole world units).
Aspects == {<<4, 3>>, <<3, 2>>, <<2, 1>>}
OrthoFrustum(halfH, a) ==
    [top |-> halfH, bottom |-> 0 - halfH,
     left |-> 0 - ((halfH * a[1]) \div a[2]), right |-> (halfH * a[1]) \div a[2]]
IsoPosition == <<6532, 4619, 6532>>
ConstructedView(a) ==
    [position |-> PlainPosition(IsoPosition), target |-> <<0, 0, 0>>,
     frustum |-> OrthoFrustum(orthoSize, a)]

\* Bounding boxes of a loaded terrain.
Box(c, s) == [center |-> c, size |-> s]
Boxes == { Box(c, s) : c \in {<<0, 0, 0>>, <<200, 100, -400>>},
                       s \in {<<8000, 400, 6000>>, <<4000, 600, 4400>>} }
TerrainBox == Box(<<200, 100, -400>>, <<8000, 400, 6000>>)

(***************************************************************************)
(* Initial state: the page has become interactive (the datasets are loaded, *)
(* setupTooltips has run and the first frame has sized the markers);        *)
(* nothing was opened.                                                      *)
(***************************************************************************)
\* The camera, the controls and the viewed object, as frameBoundingBox
\* left them in init.
FramedInit ==
    /\ bbox = TerrainBox
    /\ priorView = ConstructedView(<<4, 3>>)
    /\ view = frameBoundingBox(ConstructedView(<<4, 3>>), TerrainBox)

\* init() has run to its end.
LoadedInit ==
    /\ bootPc = "interactive"
    /\ progressPct = 100
    /\ progressLabel = CompleteLabel
    /\ preloaderDone = TRUE
    /\ doneTimer = NoTimer
    /\ originOffset = ConfigOffset
    /\ terrainLoaded = TRUE
    /\ wrapperPos = WrapperPosition(ConfigOffset)
    /\ datasetsLoaded = Len(CsvFiles)
    /\ csvRows = NoRows
    /\ markers = NoRows
    /\ bootError = None
    /\ framings = 1
    /\ framedAfter = 0

\* fetchWeather has not been called; the shipped CONFIG has no URL.
WeatherIdle ==
    /\ weatherUrl = ""
    /\ weatherPc = "idle"
    /\ weatherStatus = 0
    /\ weatherLog = <<>>

SceneInit ==
    /\ now \in LoadTimes
    /\ cam = 0
    /\ frustumH = InitialFrustumH
    /\ pointer = <<0, 0>>
    /\ activeType = None
    /\ hoveredSprite = None
    /\ animating = {}
    /\ opacity = [g \in Groups |-> FULL_OPACITY]
    /\ scale = [s \in Sprites |-> BaseSizeFor(frustumH)]
    /\ tooltip = None
    /\ groupVisible = [g \in Groups |-> TRUE]
    /\ legendFlag = [g \in Groups |-> TRUE]
    /\ visBefore = [g \in Groups |-> TRUE]
    /\ markerMap = [g \in Groups |-> "lightTex"]
    /\ modeT = 0
    /\ modeTarget = 0
    /\ modeRafId = NoRaf
    /\ modePrevTime = now
    /\ darkClass = FALSE
    /\ bgT = 0
    /\ mixT = 0
    /\ buildingT = NoLerp
    /\ sideT = NoLerp
    /\ lastFrameAt = now
    /\ isOpen = FALSE
    /\ panelHidden = TRUE
    /\ content = None
    /\ closedAt = 0
    /\ hist = <<NullState>>
    /\ histIdx = 1
    /\ pointerDownPos = <<0, 0>>
    /\ pressed = FALSE
    /\ pressPos = <<0, 0>>
    /\ lastEvent = Ev("init", NoPos, None)
    /\ openCalls = <<>>
    /\ lastClose = -1
    /\ closedBy = None
    \* animateIntro has put the camera on the elevated start position and
    \* requested its first tick; no double-click yet.
    /\ camPos = UpdatePose(LerpPose(IntroTask, 0))
    /\ camQuat = UpdatePose(LerpPose(IntroTask, 0))
    /\ controlsEnabled = TRUE
    /\ residual = 0
    /\ ctlTarget = InitialTarget
    /\ topDownAnim = 0
    /\ tasks = <<>>
    /\ introDone = FALSE
    /\ introT0 = now
    /\ phase = "idle"
    /\ frameLog = <<>>
    /\ renderedPos = UpdatePose(LerpPose(IntroTask, 0))
    /\ lastFinished = -1

Init == SceneInit /\ LoadedInit /\ FramedInit /\ WeatherIdle

(***************************************************************************)
(* Pointer events.  The targets are the DOM elements an event can land on. *)
(***************************************************************************)
\* Elements outside the detail panel that let pointer events bubble to window.
SceneTargets == {"canvas", "legend"}
\* Elements inside #detail-panel (hit only while the panel is shown).
PanelTargets == {"panel", "panelChild", "backBtn"}
\* Overlay UI: everything that is not the 3D canvas.
OverlayTargets == {"legend", "image"} \cup PanelTargets

\* e.target.closest('#detail-panel')
InsideDetailPanel(tg) == tg \in PanelTargets

\* A handler that would push a history entry is not taken at the history bound.
RoomToPush(idx) == isOpen \/ idx < MaxHist

\* dx * dx + dy * dy of the pointerup handler
Displacement2(a, b) ==
    (b[1] - a[1]) * (b[1] - a[1]) + (b[2] - a[2]) * (b[2] - a[2])

DragThreshold2 == 25

\* window 'pointerdown' listener of setupTooltips: reached by every pointerdown
\* whose propagation no element stops.
WindowPointerDown(p, tg) ==
    /\ ~pressed
    /\ tg \in SceneTargets \cup {"panelChild"}
    /\ tg = "panelChild" => ~panelHidden
    /\ pointerDownPos' = p
    /\ pressed' = TRUE
    /\ pressPos' = p
    /\ lastEvent' = Ev("pointerdown", NoPos, None)
    /\ openCalls' = <<>>
    /\ UNCHANGED <<loadVars, now, camVars, animVars, hoverVars, modeVars, panelVars, lastClose, closedBy>>

\* backBtn 'pointerdown' (tg = "backBtn") and panel 'pointerdown' with
\* e.target === panel (tg = "panel"): close, replace the history entry, and stop
\* the propagation, so the window listener does not see the event.
ClosePointerDown(p, tg) ==
    /\ ~pressed
    /\ tg \in {"backBtn", "panel"}
    /\ ~panelHidden
    /\ LET P == replaceState(closeDetail(Panel, now), NullState)
       IN /\ SetPanel(P)
          /\ ObserveClose(P, "explicit")
    /\ pressed' = TRUE
    /\ pressPos' = p
    /\ lastEvent' = Ev("closeButton", NoPos, None)
    /\ openCalls' = <<>>
    /\ UNCHANGED <<loadVars, now, camVars, animVars, hoverVars, modeVars, pointerDownPos>>

\* img 'pointerdown' of addImage: stops the propagation and opens the panel
\* with a content object.
ImagePointerDown(p) ==
    /\ ~pressed
    /\ RoomToPush(histIdx)
    /\ SetPanel(openDetail(Panel, ImageObject))
    /\ pressed' = TRUE
    /\ pressPos' = p
    /\ lastEvent' = Ev("image", NoPos, None)
    /\ openCalls' = <<ImageObject>>
    /\ UNCHANGED <<loadVars, now, camVars, animVars, hoverVars, modeVars, pointerDownPos, lastClose, closedBy>>

\* The payloads the pointerup handler passes to openDetail.
PointerUpCalls(p, tg) ==
    IF Displacement2(pointerDownPos, p) > DragThreshold2 THEN <<>>
    ELSE IF isDetailOpen \/ justClosed(DefaultMs) THEN <<>>
    ELSE IF InsideDetailPanel(tg) THEN <<>>
    ELSE IF RayHit(p, cam) # None THEN <<SpriteType(RayHit(p, cam))>>
    ELSE <<>>

\* window 'pointerup' listener of setupTooltips.
PointerUp(p, tg) ==
    /\ pressed
    /\ tg \in SceneTargets \cup {"image"} \cup PanelTargets
    /\ tg \in PanelTargets => ~panelHidden
    /\ RoomToPush(histIdx)
    /\ LET calls == PointerUpCalls(p, tg)
       IN /\ openCalls' = calls
          /\ IF calls = <<>>
             THEN UNCHANGED panelVars
             ELSE SetPanel(openDetail(Panel, calls[1]))
    /\ pressed' = FALSE
    /\ pressPos' = pointerDownPos
    /\ lastEvent' = Ev("pointerup", p, tg)
    /\ UNCHANGED <<loadVars, now, camVars, animVars, hoverVars, modeVars, pointerDownPos, lastClose, closedBy>>

(***************************************************************************)
(* Browser back / forward: the session history moves to a neighbouring     *)
(* entry and the popstate handler runs with that entry's state.            *)
(***************************************************************************)
\* Does the popstate handler call openDetail for this entry state?
PopStateCalls(state) ==
    IF isOpen /\ ~state.detailPanel THEN <<>>
    ELSE IF state.detailPanel THEN <<state.type>>
    ELSE <<>>

popstate(P, state, t) ==
    IF P.isOpen /\ ~state.detailPanel THEN closeDetail(P, t)
    ELSE IF state.detailPanel THEN openDetail(P, state.type)
    ELSE P

Traverse(idx, name) ==
    /\ idx \in 1..Len(hist)
    /\ RoomToPush(idx)
    /\ LET P == popstate([Panel EXCEPT !.histIdx = idx], hist[idx], now)
       IN /\ SetPanel(P)
          /\ ObserveClose(P, "popstate")
    /\ openCalls' = PopStateCalls(hist[idx])
    /\ lastEvent' = Ev(name, NoPos, None)
    /\ UNCHANGED <<loadVars, now, camVars, animVars, hoverVars, modeVars, pointerVars>>

Back == Traverse(histIdx - 1, "back")

Forward == Traverse(histIdx + 1, "forward")

\* Time passes.
Advance(d) ==
    /\ now + d <= Ms(MaxTimeMs)
    /\ now' = now + d
    /\ lastEvent' = Ev("advance", NoPos, None)
    /\ openCalls' = <<>>
    /\ UNCHANGED <<loadVars, camVars, animVars, hoverVars, modeVars, panelVars, pointerVars, lastClose, closedBy>>

PanelNext ==
    \/ \E p \in Positions, tg \in SceneTargets \cup {"panelChild"} : WindowPointerDown(p, tg)
    \/ \E p \in Positions, tg \in {"backBtn", "panel"} : ClosePointerDown(p, tg)
    \/ \E p \in Positions : ImagePointerDown(p)
    \/ \E p \in Positions, tg \in SceneTargets \cup {"image"} \cup PanelTargets : PointerUp(p, tg)
    \/ Back
    \/ Forward
    \/ \E d \in TimeSteps : Advance(d)

SpecPanel == Init /\ [][PanelNext]_vars

(***************************************************************************)
(* Claims about the detail panel and the click handler (SpecPanel).        *)
(***************************************************************************)
\* The panel was closed by closeDetail less than ms milliseconds ago.
ClosedWithin(ms) == lastClose >= 0 /\ now - lastClose < Ms(ms)

\* The history index at which a handler of the given kind calls openDetail.
IndexAtCall(kind) ==
    CASE kind = "back" -> histIdx - 1
      [] kind = "forward" -> histIdx + 1
      [] OTHER -> histIdx

\* C1: whenever the detail panel is open, one browser back gesture leaves it
\* closed.
C1_BackClosesOpenPanel ==
    [][(isOpen /\ lastEvent'.kind = "back") => ~isOpen']_vars

\* C2: once the panel has been closed explicitly (back button or backdrop:
\* closeDetail, then history.replaceState(null)), a later browser back gesture
\* never re-opens it.
C2_BackAfterExplicitCloseStaysClosed ==
    [][(~isOpen /\ closedBy = "explicit" /\ lastEvent'.kind = "back")
          => ~isOpen']_vars

\* C3: a press released over a marker with squared displacement at most 25,
\* while the panel is closed and was not closed in the last 300 ms, calls
\* openDetail exactly once with that marker's type; a press released with
\* squared displacement above 25 calls openDetail zero times.
C3_ClickOpensOnceDragNever ==
    [][lastEvent'.kind = "pointerup" =>
          LET p  == lastEvent'.pos
              d2 == Displacement2(pressPos, p)
          IN /\ ( /\ d2 <= DragThreshold2
                  /\ RayHit(p, cam) # None
                  /\ ~isOpen
                  /\ ~ClosedWithin(DefaultMs) )
                => openCalls' = <<SpriteType(RayHit(p, cam))>>
             /\ d2 > DragThreshold2 => openCalls' = <<>>]_vars

\* C4: the scene pointer-up handler never calls openDetail while the detail
\* panel is open, nor within 300 ms after the panel's most recent close.
C4_NoOpenWhileOpenOrJustClosed ==
    [][(lastEvent'.kind = "pointerup" /\ openCalls' # <<>>)
          => (~isOpen /\ ~ClosedWithin(DefaultMs))]_vars

\* C4 witness: a click opened the panel although it had been closed before
\* (the debounce window had passed).
C4_Witness ==
    /\ lastEvent.kind = "pointerup"
    /\ openCalls # <<>>
    /\ isOpen
    /\ lastClose >= 0

\* C5: a click whose pointer-up target is an overlay UI element (detail panel,
\* legend, buttons) never triggers openDetail, even with a marker under the
\* release position.
C5_OverlayClickNeverOpens ==
    [][(lastEvent'.kind = "pointerup" /\ lastEvent'.target \in OverlayTargets)
          => openCalls' = <<>>]_vars

\* C6: openDetail called while the panel is closed opens it and pushes exactly
\* one history entry carrying detailPanel state; called while the panel is
\* already open it changes nothing (no content change, no history push).
C6_OpenDetailEffect ==
    [][openCalls' # <<>> =>
          LET idx0 == IndexAtCall(lastEvent'.kind)
              payload == openCalls'[1]
          IN IF isOpen
             THEN /\ isOpen' /\ panelHidden' = panelHidden
                  /\ content' = content
                  /\ hist' = hist
                  /\ histIdx' = idx0
                  /\ closedAt' = closedAt
             ELSE /\ isOpen' /\ ~panelHidden'
                  /\ content' = ContentTitle(payload)
                  /\ Len(hist') = idx0 + 1
                  /\ SubSeq(hist', 1, idx0) = SubSeq(hist, 1, idx0)
                  /\ hist'[idx0 + 1] = DetailState(HistType(payload))
                  /\ histIdx' = idx0 + 1]_vars

\* C6 witness: a back gesture called openDetail while the panel was already
\* open; nothing was pushed (entries remain ahead of the current one).
C6_Witness ==
    /\ lastEvent.kind = "back"
    /\ openCalls # <<>>
    /\ isOpen
    /\ histIdx < Len(hist)

\* C7: justClosed(ms) is true exactly when closeDetail closed the panel less
\* than ms milliseconds ago; it is false while the panel was never closed.
MsValues == {100, 300, 500}

C7_JustClosedExact ==
    \A ms \in MsValues : justClosed(ms) <=> ClosedWithin(ms)

(***************************************************************************)
(* setupTooltips: hover highlighting and the per-frame sprite tick.        *)
(***************************************************************************)
\* getBaseSize() for the orthographic camera
getBaseSize == BaseSizeFor(frustumH)

\* base * HOVER_SCALE, HOVER_SCALE = 1.5
HoverTarget(base) == (3 * base) \div 2

\* THREE.MathUtils.lerp(cur, goal, LERP_SPEED), LERP_SPEED = 0.25
Lerp_Stay(cur, goal) == cur

Lerp(cur, goal) == (3 * cur + goal) \div 4


\* The groups of scene.children that hold data points.
getDataGroups == {g \in Groups : GroupSprites(g) # {}}

\* setGroupOpacity on every data group: full for the group named t, dim for the rest.
HighlightGroup(t) ==
    [g \in Groups |->
        IF g \in getDataGroups
        THEN (IF g = t THEN FULL_OPACITY ELSE DIM_OPACITY)
        ELSE opacity[g]]

resetAllGroups_Skip == opacity

\* resetAllGroups: the opacities it leaves (it also clears activeType).
resetAllGroups ==
    [g \in Groups |-> IF g \in getDataGroups THEN FULL_OPACITY ELSE opacity[g]]

HoveredAfterMove_KeepOnMiss(hit) == IF hit = None THEN hoveredSprite ELSE hit

\* hoveredSprite after the pointermove handler, by its two branches.
HoveredAfterMove(hit) == IF hit # None THEN hit ELSE None

\* window 'pointermove' listener.
PointerMove(p) ==
    LET hit == RayHit(p, cam)
        old == IF hoveredSprite # None THEN {hoveredSprite} ELSE {}
    IN /\ pointer' = p
       /\ IF hit # None
          THEN /\ IF activeType # SpriteType(hit)
                  THEN opacity' = HighlightGroup(SpriteType(hit))
                  ELSE UNCHANGED opacity
               /\ activeType' = SpriteType(hit)
               /\ IF hoveredSprite # hit
                  THEN animating' = animating \cup old \cup {hit}
                  ELSE UNCHANGED animating
               /\ tooltip' = hit
          ELSE /\ animating' = animating \cup old
               /\ IF activeType # None
                  THEN opacity' = resetAllGroups
                  ELSE UNCHANGED opacity
               /\ activeType' = None
               /\ tooltip' = None
       /\ hoveredSprite' = HoveredAfterMove(hit)
       /\ lastEvent' = Ev("pointermove", p, None)
       /\ openCalls' = <<>>
       /\ UNCHANGED <<loadVars, now, camVars, animVars, scale, modeVars, panelVars, pointerVars,
                      lastClose, closedBy>>

\* tick(): the scale one sprite gets.
TickScale_KeepIdle(s, base) ==
    IF s \notin animating THEN scale[s]
    ELSE LET goal == IF s = hoveredSprite THEN HoverTarget(base) ELSE base
             next == Lerp(scale[s], goal)
         IN IF Abs(next - goal) < ScaleEps THEN goal ELSE next

TickScale(s, base) ==
    IF s \notin animating THEN base
    ELSE LET goal == IF s = hoveredSprite THEN HoverTarget(base) ELSE base
             next == Lerp(scale[s], goal)
         IN IF Abs(next - goal) < ScaleEps THEN goal ELSE next

\* tick(): does the sprite leave the animating set?
TickReleases_Hovered(s, base) ==
    /\ s \in animating
    /\ LET goal == IF s = hoveredSprite THEN HoverTarget(base) ELSE base
           next == Lerp(scale[s], goal)
       IN Abs(next - goal) < ScaleEps

TickReleases(s, base) ==
    /\ s \in animating
    /\ s # hoveredSprite
    /\ LET next == Lerp(scale[s], base)
       IN Abs(next - base) < ScaleEps

\* One display frame, animate() of viewer.js: the camera is advanced (orbit
\* controls or a camera animation; any pose and zoom can result), then the
\* sprite tick runs with the new camera.
Frame(c, h) ==
    /\ cam' = c
    /\ frustumH' = h
    /\ LET base == BaseSizeFor(h)
       IN /\ scale' = [s \in Sprites |-> TickScale(s, base)]
          /\ animating' = {s \in animating : ~TickReleases(s, base)}
    /\ lastEvent' = Ev("frame", NoPos, None)
    /\ openCalls' = <<>>
    /\ UNCHANGED <<loadVars, now, pointer, activeType, hoveredSprite, opacity, tooltip,
                   animVars, modeVars, panelVars, pointerVars, lastClose, closedBy>>

HoverNext ==
    \/ \E p \in Positions : PointerMove(p)
    \/ \E c \in Cams, h \in FrustumHs : Frame(c, h)

SpecHover == Init /\ [][HoverNext]_vars

(***************************************************************************)
(* Claims about hovering (SpecHover).                                      *)
(***************************************************************************)
TypeOrNone(s) == IF s = None THEN None ELSE SpriteType(s)

\* C8: hover-dimming invariant: either no category is hovered and every
\* marker group has opacity 1.0, or exactly one group, the hovered marker's
\* category, has opacity 1.0 and every other marker group has opacity 0.45.
C8_HoverDimming ==
    \/ /\ activeType = None
       /\ hoveredSprite = None
       /\ \A g \in Groups : opacity[g] = FULL_OPACITY
    \/ /\ activeType \in Groups
       /\ hoveredSprite # None
       /\ SpriteType(hoveredSprite) = activeType
       /\ opacity[activeType] = FULL_OPACITY
       /\ \A g \in Groups \ {activeType} : opacity[g] = DIM_OPACITY

\* C8 witness: the hovered category has just changed from one group to another.
C8_Witness ==
    /\ lastEvent.kind = "pointermove"
    /\ activeType = "NPDES"
    /\ opacity["CSO"] = DIM_OPACITY
    /\ "s1" \in animating

ModeTimeSteps == {Ms(100), Ms(100) - 1}
FrameLags == {0, Ms(5)}


ToggleClick_NoGuard ==
    /\ modeTarget' = (IF modeT < ModeHalf THEN ModeOne ELSE 0)
    /\ modePrevTime' = now
    /\ modeRafId' = Pending
    /\ lastEvent' = Ev("toggle", NoPos, None)
    /\ openCalls' = <<>>
    /\ UNCHANGED <<loadVars, now, modeT, darkClass, bgT, mixT, buildingT, sideT, lastFrameAt,
                   camVars, animVars, hoverVars, panelVars, pointerVars, lastClose, closedBy>>

\* dark-mode-btn 'click' listener.
ToggleClick ==
    /\ IF modeRafId # NoRaf
       THEN UNCHANGED <<modeTarget, modePrevTime, modeRafId>>
       ELSE /\ modeTarget' = (IF modeT < ModeHalf THEN ModeOne ELSE 0)
            /\ modePrevTime' = now
            /\ modeRafId' = Pending
    /\ lastEvent' = Ev("toggle", NoPos, None)
    /\ openCalls' = <<>>
    /\ UNCHANGED <<loadVars, now, modeT, darkClass, bgT, mixT, buildingT, sideT, lastFrameAt,
                   camVars, animVars, hoverVars, panelVars, pointerVars, lastClose, closedBy>>

\* modeT after the step of tickModeFrame, before the settling test.
ModeStep(dt) ==
    IF modeTarget > modeT THEN Min(modeT + dt, modeTarget)
    ELSE Max(modeT - dt, modeTarget)

\* tickModeFrame without the final assignment modeT = modeTarget.
tickModeFrame_NoSnap(ts) ==
    LET t1 == ModeStep(ts - modePrevTime)
        settled == ~(Abs(t1 - modeTarget) > ModeEps)
    IN /\ modePrevTime' = ts
       /\ darkClass' = (IF modeTarget = ModeOne /\ t1 >= ModeHalf THEN TRUE
                        ELSE IF modeTarget = 0 /\ t1 <= ModeHalf THEN FALSE
                        ELSE darkClass)
       /\ bgT' = t1
       /\ mixT' = t1
       /\ buildingT' = t1
       /\ sideT' = t1
       /\ modeT' = t1
       /\ modeRafId' = (IF settled THEN NoRaf ELSE Pending)

\* tickModeFrame switching the 'dark' class at the endpoints instead of the
\* midpoint.
tickModeFrame_ClassAtEnd(ts) ==
    LET t1 == ModeStep(ts - modePrevTime)
        settled == ~(Abs(t1 - modeTarget) > ModeEps)
        final == IF settled THEN modeTarget ELSE t1
    IN /\ modePrevTime' = ts
       /\ darkClass' = (IF settled THEN modeTarget = ModeOne ELSE darkClass)
       /\ bgT' = t1
       /\ mixT' = final
       /\ buildingT' = final
       /\ sideT' = final
       /\ modeT' = final
       /\ modeRafId' = (IF settled THEN NoRaf ELSE Pending)

\* tickModeFrame(ts): the scheduled frame callback, run with timestamp ts.
tickModeFrame(ts) ==
    LET t1 == ModeStep(ts - modePrevTime)
        settled == ~(Abs(t1 - modeTarget) > ModeEps)
        final == IF settled THEN modeTarget ELSE t1
    IN /\ modePrevTime' = ts
       /\ darkClass' = (IF modeTarget = ModeOne /\ t1 >= ModeHalf THEN TRUE
                        ELSE IF modeTarget = 0 /\ t1 <= ModeHalf THEN FALSE
                        ELSE darkClass)
       /\ bgT' = t1
       /\ mixT' = final
       /\ buildingT' = final
       /\ sideT' = final
       /\ modeT' = final
       /\ modeRafId' = (IF settled THEN NoRaf ELSE Pending)

\* An animation frame in which the pending mode callback runs.
ModeFrame(lag) ==
    /\ modeRafId # NoRaf
    /\ now > lastFrameAt
    /\ lastFrameAt' = now
    /\ lastEvent' = Ev("modeframe", NoPos, None)
    /\ tickModeFrame(now - lag)
    /\ openCalls' = <<>>
    /\ UNCHANGED <<loadVars, now, modeTarget, camVars, animVars, hoverVars, panelVars, pointerVars,
                   lastClose, closedBy>>

ModeNext ==
    \/ ToggleClick
    \/ \E lag \in FrameLags : ModeFrame(lag)
    \/ \E d \in ModeTimeSteps : Advance(d)

SpecMode == Init /\ [][ModeNext]_vars

\* The same program when the browser keeps delivering animation frames and
\* the clock keeps running (requestAnimationFrame callbacks are always
\* eventually called).
\* Every frame changes lastFrameAt and every clock step changes now.
frameClock == <<now, lastFrameAt>>

SpecModeFair ==
    /\ Init /\ [][ModeNext]_vars
    /\ WF_frameClock(\E lag \in FrameLags : ModeFrame(lag))
    /\ WF_frameClock(\E d \in ModeTimeSteps : Advance(d))

(***************************************************************************)
(* Claims about the mode crossfade (SpecMode).                             *)
(***************************************************************************)
\* C10: a dark-mode toggle click received while a mode transition is in
\* flight (modeRafId set) is a no-op: it changes neither modeTarget, modeT,
\* modePrevTime nor the scheduled frame callback.
C10_ToggleInFlightIsNoOp ==
    [][(lastEvent'.kind = "toggle" /\ modeRafId # NoRaf)
          => /\ modeTarget' = modeTarget
             /\ modeT' = modeT
             /\ modePrevTime' = modePrevTime
             /\ modeRafId' = modeRafId]_vars

\* C10 witness: a click arrived in the middle of a transition, later than the
\* click that started it and than the last frame (an accepted click would
\* have set modePrevTime to now).
C10_Witness ==
    /\ lastEvent.kind = "toggle"
    /\ modeRafId # NoRaf
    /\ modeT > 0 /\ modeT < ModeOne
    /\ now > modePrevTime


\* A transition in flight no later than SettleHorizon has two full crossfade
\* durations of clock left inside the modelled time span.
SettleHorizon == Ms(MaxTimeMs) - 2 * ModeOne

\* C11: every accepted mode toggle eventually settles when frames keep
\* firing; whenever no transition is in flight modeT is exactly 0 or exactly
\* 1; an accepted toggle aims at the endpoint opposite to the current one and
\* the settling frame leaves modeT exactly on that endpoint.
C11_ToggleSettlesOnOppositeEndpoint ==
    /\ [](modeRafId = NoRaf => modeT \in {0, ModeOne})
    /\ [][(modeRafId = NoRaf /\ modeRafId' # NoRaf)
             => (modeT \in {0, ModeOne} /\ modeTarget' = ModeOne - modeT)]_vars
    /\ [][(modeRafId # NoRaf /\ modeRafId' = NoRaf)
             => (modeT' = modeTarget /\ modeTarget' = modeTarget)]_vars
    /\ [][(modeRafId # NoRaf /\ modeRafId' # NoRaf) => modeTarget' = modeTarget]_vars
    /\ ((modeRafId # NoRaf /\ now <= SettleHorizon) ~> (modeRafId = NoRaf))

\* C11 witness: a crossfade to dark and the crossfade back have both settled,
\* the second one in a frame whose step stopped within the tolerance of the
\* endpoint.
C11_Witness ==
    /\ lastEvent.kind = "modeframe"
    /\ modeRafId = NoRaf
    /\ modeT = 0 /\ modeTarget = 0
    /\ bgT # 0


\* C12: after every mode frame callback (the settling one included) the
\* background lerp scalar, the terrain blend factor mixT and the building
\* and side colour lerp scalars are one value, the current modeT.
C12_ChannelsAgreeAfterFrame ==
    lastEvent.kind = "modeframe"
        => /\ bgT = modeT
           /\ mixT = modeT
           /\ buildingT = modeT
           /\ sideT = modeT


\* Values a lerp scalar may take according to the mode scalar's range [0, 1].
UnitRange == 0 .. ModeOne

\* C13: modeT, every value handed to setModeProgress (mixT, the building and
\* side lerp scalars) and the background lerp scalar lie in [0, 1] in every
\* reachable state, whatever timestamps the frame callbacks receive.
C13_ModeScalarInUnitRange ==
    /\ modeT \in UnitRange
    /\ bgT \in UnitRange
    /\ mixT \in UnitRange
    /\ buildingT \in UnitRange \cup {NoLerp}
    /\ sideT \in UnitRange \cup {NoLerp}


\* C14: the 'dark' body class flips at the midpoint.  After every mode frame
\* callback the class is present iff modeT >= 0.5 when the target is 1, and
\* absent iff modeT <= 0.5 when the target is 0; whenever no transition is in
\* flight the class is present iff modeT = 1.
C14_DarkClassFlipsAtMidpoint ==
    /\ (lastEvent.kind = "modeframe" /\ modeTarget = ModeOne)
          => (darkClass <=> modeT >= ModeHalf)
    /\ (lastEvent.kind = "modeframe" /\ modeTarget = 0)
          => (~darkClass <=> modeT <= ModeHalf)
    /\ modeRafId = NoRaf => (darkClass <=> modeT = ModeOne)

\* C14 witness: on the way back to light a frame has brought modeT down to
\* the midpoint or below, without settling, and the class is gone.
C14_Witness ==
    /\ lastEvent.kind = "modeframe"
    /\ modeTarget = 0
    /\ modeRafId # NoRaf
    /\ modeT <= ModeHalf /\ modeT > 0
    /\ ~darkClass


(***************************************************************************)
(* Camera animations (SpecCamera): the double-click handler and animate()  *)
(* of viewer.js, the tick of animateIntro, and the user's orbit and pan    *)
(* gestures handled by OrbitControls.                                      *)
(***************************************************************************)
CamTimeSteps == {Ms(600)}

\* Matrix4.lookAt(eye, target, up) followed by setFromRotationMatrix: the
\* orientation whose local axes are x (right), y (up) and z (backwards).
\* (The library's fallback for up parallel to z is not reached: z always has
\* a y component and up has none.)
LookAt(eye, target, up) ==
    LET z0 == Sub(eye, target)
        z == Normalize(IF z0 = <<0, 0, 0>> THEN <<0, 0, 1>> ELSE z0)
        x == Normalize(Cross(up, z))
        y == Normalize(Cross(z, x))
    IN [x |-> x, y |-> y, z |-> z]

\* The reference axis pointing the opposite way.
RefUp_South == <<0, 0, 1>>
\* new THREE.Vector3(0, 0, -1)
RefUp == <<0, 0, -1>>

\* new THREE.Vector3(target.x, target.y + dist, target.z + 0.1)
TopDownEndPos(target, dist) == <<target[1], target[2] + dist, target[3] + 1>>

TopDownActive == topDownAnim # 0 /\ ~tasks[topDownAnim].done
IntroActive == ~introDone

MarkDone_Skip(ts, k) == ts
\* if (topDownAnim) topDownAnim.done = true
MarkDone(ts, k) == IF k = 0 THEN ts ELSE [ts EXCEPT ![k].done = TRUE]

\* 'dblclick' listener of the canvas.
dblclick(dist) ==
    /\ phase = "idle"
    /\ Len(tasks) < MaxDbl
    /\ LET target == ctlTarget
           endPos == TopDownEndPos(target, dist)
       IN tasks' = Append(MarkDone(tasks, topDownAnim),
                          [startPos |-> camPos, endPos |-> endPos,
                           startQuat |-> camQuat,
                           endQuat |-> LookAt(endPos, target, RefUp),
                           target |-> target, t0 |-> now,
                           duration |-> TopDownMs, done |-> FALSE])
    /\ topDownAnim' = Len(tasks) + 1
    /\ controlsEnabled' = FALSE
    /\ lastEvent' = Ev("dblclick", NoPos, None)
    /\ openCalls' = <<>>
    /\ UNCHANGED <<loadVars, now, camPos, camQuat, residual, ctlTarget, introDone, introT0, phase,
                   frameLog, renderedPos, lastFinished,
                   camVars, hoverVars, modeVars, panelVars, pointerVars, lastClose, closedBy>>

\* The completing branch of animate() without the final copy of the end pose.
CompletedPose_NoCopy(k) == UpdatePose(LerpPose(k, Ms(TopDownMs)))
\* camera.position.copy(a.endPos); camera.quaternion.copy(a.endQuat)
CompletedPose(k) == EndPose(k)

\* The residual of the damped delta after one controls.update().
Decay(r) == IF r > 0 THEN r - 1 ELSE 0

\* animate(): the render loop's frame callback.
animate ==
    /\ phase = "idle"
    /\ now > lastFrameAt
    /\ lastFrameAt' = now
    /\ lastEvent' = Ev("animate", NoPos, None)
    /\ openCalls' = <<>>
    /\ IF TopDownActive
       THEN LET k == topDownAnim
                a == tasks[k]
                at == Min(now - a.t0, Ms(a.duration))
            IN IF at >= Ms(a.duration)
               THEN /\ controlsEnabled' = TRUE
                    /\ ctlTarget' = a.target
                    /\ residual' = 0
                    /\ camPos' = CompletedPose(k)
                    /\ camQuat' = CompletedPose(k)
                    /\ tasks' = [tasks EXCEPT ![k].done = TRUE]
                    /\ lastFinished' = k
               ELSE /\ camPos' = LerpPose(k, at)
                    /\ camQuat' = LerpPose(k, at)
                    /\ UNCHANGED <<controlsEnabled, ctlTarget, residual, tasks, lastFinished>>
       ELSE /\ camPos' = UpdatePose(camPos)
            /\ camQuat' = UpdatePose(camPos)
            /\ residual' = Decay(residual)
            /\ UNCHANGED <<controlsEnabled, ctlTarget, tasks, lastFinished>>
    /\ LET base == getBaseSize
       IN /\ scale' = [s \in Sprites |-> TickScale(s, base)]
          /\ animating' = {s \in animating : ~TickReleases(s, base)}
    /\ renderedPos' = camPos'
    /\ frameLog' = <<IF TopDownActive THEN "topdown" ELSE "controls",
                     "sprites", "render", "labels">>
    /\ phase' = (IF introDone THEN "idle" ELSE "intro")
    /\ UNCHANGED <<loadVars, now, topDownAnim, introDone, introT0,
                   camVars, pointer, activeType, hoveredSprite, opacity, tooltip,
                   modeT, modeTarget, modeRafId, modePrevTime, darkClass, bgT, mixT,
                   buildingT, sideT, panelVars, pointerVars, lastClose, closedBy>>

\* tick() of animateIntro: the frame callback requested after animate's.
animateIntroTick ==
    /\ phase = "intro"
    /\ phase' = "idle"
    /\ lastEvent' = Ev("introtick", NoPos, None)
    /\ openCalls' = <<>>
    /\ LET at == Min(now - introT0, Ms(IntroMs))
       IN IF at >= Ms(IntroMs)
          THEN /\ camPos' = UpdatePose(EndPose(IntroTask))
               /\ camQuat' = UpdatePose(EndPose(IntroTask))
               /\ residual' = Decay(Decay(residual))
               /\ introDone' = TRUE
               /\ lastFinished' = IntroTask
          ELSE /\ camPos' = UpdatePose(LerpPose(IntroTask, at))
               /\ camQuat' = UpdatePose(LerpPose(IntroTask, at))
               /\ residual' = Decay(residual)
               /\ UNCHANGED <<introDone, lastFinished>>
    /\ frameLog' = Append(frameLog, "intro")
    /\ UNCHANGED <<loadVars, now, controlsEnabled, ctlTarget, topDownAnim, tasks, introT0, renderedPos,
                   camVars, hoverVars, modeVars, panelVars, pointerVars, lastClose, closedBy>>

\* A rotate drag on the canvas, handled by OrbitControls while it is enabled:
\* it leaves a damped delta that the following updates apply.
UserOrbit ==
    /\ phase = "idle"
    /\ controlsEnabled
    /\ residual < DampFrames
    /\ residual' = DampFrames
    /\ lastEvent' = Ev("orbit", NoPos, None)
    /\ openCalls' = <<>>
    /\ UNCHANGED <<loadVars, now, camPos, camQuat, controlsEnabled, ctlTarget, topDownAnim, tasks,
                   introDone, introT0, phase, frameLog, renderedPos, lastFinished,
                   camVars, hoverVars, modeVars, panelVars, pointerVars, lastClose, closedBy>>

\* A pan drag on the canvas, handled by OrbitControls while it is enabled.
UserPan(t) ==
    /\ phase = "idle"
    /\ controlsEnabled
    /\ t # ctlTarget
    /\ ctlTarget' = t
    /\ lastEvent' = Ev("pan", NoPos, None)
    /\ openCalls' = <<>>
    /\ UNCHANGED <<loadVars, now, camPos, camQuat, controlsEnabled, residual, topDownAnim, tasks,
                   introDone, introT0, phase, frameLog, renderedPos, lastFinished,
                   camVars, hoverVars, modeVars, panelVars, pointerVars, lastClose, closedBy>>

\* The clock runs on between two display frames.
CamAdvance(d) ==
    /\ phase = "idle"
    /\ now + d <= Ms(MaxCamTimeMs)
    /\ now' = now + d
    /\ lastEvent' = Ev("advance", NoPos, None)
    /\ openCalls' = <<>>
    /\ UNCHANGED <<loadVars, camVars, animVars, hoverVars, modeVars, panelVars, pointerVars,
                   lastClose, closedBy>>

CameraNext ==
    \/ \E dist \in Dists : dblclick(dist)
    \/ animate
    \/ animateIntroTick
    \/ UserOrbit
    \/ \E t \in Targets : UserPan(t)
    \/ \E d \in CamTimeSteps : CamAdvance(d)

SpecCamera == Init /\ [][CameraNext]_vars

\* Every display frame changes lastFrameAt or phase, every clock step now.
camClock == <<now, lastFrameAt, phase>>

\* The same program when the browser keeps delivering display frames and the
\* clock keeps running.
SpecCameraFair ==
    /\ Init /\ [][CameraNext]_vars
    /\ WF_camClock(animate)
    /\ WF_camClock(animateIntroTick)
    /\ WF_camClock(\E d \in CamTimeSteps : CamAdvance(d))


(***************************************************************************)
(* Claims about the camera animations (SpecCamera, SpecCameraFair).        *)
(***************************************************************************)
NotDone == {k \in 1..Len(tasks) : ~tasks[k].done}

\* C15: a double-click received while a top-down animation is in flight
\* supersedes it: the earlier task is marked done and replaced, at most one
\* top-down task is not done at any time, and every pose a frame interpolates
\* or copies comes from the current task, never from a superseded one.
C15_DoubleClickSupersedes ==
    /\ [](Cardinality(NotDone) <= 1)
    /\ [](NotDone \subseteq {topDownAnim})
    /\ [][(lastEvent'.kind = "dblclick" /\ TopDownActive)
             => (tasks'[topDownAnim].done /\ topDownAnim' > topDownAnim)]_vars
    /\ [][(lastEvent'.kind = "animate" /\ camPos'.kind \in {"lerp", "end"})
             => (camPos'.by = topDownAnim' /\ camQuat'.by = topDownAnim'
                 /\ camQuat'.kind \in {"lerp", "end"})]_vars

\* C15 witness: the first task was superseded before its duration had
\* elapsed, and a frame has since posed the camera from the second task.
C15_Witness ==
    /\ Len(tasks) = 2
    /\ tasks[1].done
    /\ tasks[2].t0 > tasks[1].t0
    /\ tasks[2].t0 < tasks[1].t0 + Ms(TopDownMs)
    /\ tasks[2].startPos = LerpPose(1, tasks[2].t0 - tasks[1].t0)
    /\ lastEvent.kind = "animate"
    /\ camPos.by = 2


\* A task started no later than CamHorizon has its whole duration and one
\* clock step more inside the modelled time span.
CamHorizon == Ms(MaxCamTimeMs) - 2 * Ms(TopDownMs)

\* C16: a top-down task eventually completes when frames keep firing (or is
\* superseded by a further double-click, the only other way it gets done);
\* the frame that completes it runs no earlier than the task's duration after
\* its start, flushes the residual damping, re-enables the controls, marks
\* the task done, and leaves (and renders) the camera position and
\* quaternion exactly on the task's end pose.
C16_TopDownCompletesOnEndPose ==
    /\ [][\A k \in 1..MaxDbl :
            (k <= Len(tasks) /\ ~tasks[k].done /\ tasks'[k].done)
               => \/ lastEvent'.kind = "dblclick"
                  \/ /\ lastEvent'.kind = "animate"
                     /\ now - tasks[k].t0 >= Ms(tasks[k].duration)
                     /\ residual' = 0
                     /\ controlsEnabled'
                     /\ ctlTarget' = tasks[k].target
                     /\ camPos' = EndPose(k)
                     /\ camQuat' = EndPose(k)
                     /\ renderedPos' = EndPose(k)]_vars
    /\ \A k \in 1..MaxDbl :
          (k <= Len(tasks) /\ ~tasks[k].done /\ tasks[k].t0 <= CamHorizon)
             ~> (k <= Len(tasks) /\ tasks[k].done)

\* C16 witness: a frame has just completed the current top-down task, which
\* no double-click superseded.
C16_Witness ==
    /\ lastEvent.kind = "animate"
    /\ topDownAnim # 0
    /\ lastFinished = topDownAnim
    /\ tasks[topDownAnim].done
    /\ camPos = EndPose(topDownAnim)
    /\ now - tasks[topDownAnim].t0 >= Ms(TopDownMs)


\* C17: whenever the camera pose is being driven by an animation task (the
\* top-down transition or the intro), controls.enabled is false until that
\* task completes.
C17_ControlsDisabledWhileAnimating ==
    (TopDownActive \/ IntroActive) => ~controlsEnabled


\* What the callbacks of the current frame did.
FrameSteps == {frameLog[i] : i \in DOMAIN frameLog}

\* C18: in any frame at most one animation task writes camera.position (the
\* intro task and a top-down task never both write it), and once a task has
\* completed and no top-down task is running, the camera rests on a pose of
\* the task that completed last, not on one of another still-running task.
C18_OneAnimationWritesPosition ==
    /\ ~({"topdown", "intro"} \subseteq FrameSteps)
    /\ (phase = "idle" /\ lastFinished # -1 /\ ~TopDownActive)
          => camPos.by = lastFinished


\* Position of step s in the frame's log, 0 if it did not happen.
StepIndex(s) ==
    IF s \in FrameSteps THEN CHOOSE i \in DOMAIN frameLog : frameLog[i] = s ELSE 0

\* C19: within every frame all camera-animation advancement (top-down and
\* intro) happens before renderer.render, the sprite tick runs after the
\* camera advancement and before rendering, and at the end of the frame the
\* camera is still on the pose the frame was rendered with.
C19_AnimationBeforeRender ==
    "render" \in FrameSteps
       => /\ \A s \in {"topdown", "controls", "intro"} :
                s \in FrameSteps => StepIndex(s) < StepIndex("sprites")
          /\ StepIndex("sprites") < StepIndex("render")
          /\ phase = "idle" => camPos = renderedPos


\* The camera distance a task's end position was built with.
TaskDist(k) == tasks[k].endPos[2] - tasks[k].target[2]

\* Two top-down tasks triggered with the same pivot and camera distance end
\* on the same orientation, whatever orientation each started from.
EndQuatIndependentOfStart ==
    \A i, j \in 1..Len(tasks) :
        (tasks[i].target = tasks[j].target /\ TaskDist(i) = TaskDist(j))
            => tasks[i].endQuat = tasks[j].endQuat

\* C20 (as stated): the end orientation of the top-down transition does not
\* depend on the starting orientation, and its up-axis is the reference axis
\* (0, 0, -1).
C20_EndUpAxisIsReference ==
    /\ EndQuatIndependentOfStart
    /\ \A k \in 1..Len(tasks) : tasks[k].endQuat.y = RefUp

\* C20 (amended): the end orientation does not depend on the starting
\* orientation; it looks from the end position, which lies 0.1 off the
\* vertical through the pivot, at the pivot, so its up-axis is the reference
\* axis made perpendicular to that line of sight: the direction
\* (0, 0.1, -dist), with its right axis (1, 0, 0).
C20_EndOrientationIndependentOfStart ==
    /\ EndQuatIndependentOfStart
    /\ \A k \in 1..Len(tasks) :
          /\ tasks[k].endQuat.x = <<1, 0, 0>>
          /\ tasks[k].endQuat.y = Normalize(<<0, 1, -TaskDist(k)>>)
          /\ tasks[k].endQuat.z = Normalize(<<0, TaskDist(k), 1>>)

\* C20 witness: two tasks with the same pivot and distance were triggered
\* from different starting orientations.
C20_Witness ==
    /\ Len(tasks) = 2
    /\ tasks[1].target = tasks[2].target
    /\ TaskDist(1) = TaskDist(2)
    /\ tasks[1].startQuat # tasks[2].startQuat


(***************************************************************************)
(* Easing of the camera animations.  Elapsed times are counted in units of *)
(* EaseUnit; the eased progress of a task of duration dur (in those units) *)
(* is the fraction EaseNum / dur^3.                                        *)
(***************************************************************************)
EaseUnit == Ms(5 * 10)
Cube(x) == x * x * x

\* easeInOutCubic(t) = t < 0.5 ? 4 t^3 : 1 - (-2 t + 2)^3 / 2, for t = at / dur.
easeInOutCubic(at, dur) ==
    IF 2 * at < dur THEN 4 * Cube(at) ELSE Cube(dur) - 4 * Cube(dur - at)

\* easeOutCubic(t) = 1 - (1 - t)^3, for t = at / dur.
easeOutCubic(at, dur) == Cube(dur) - Cube(dur - at)

\* Duration of a task and the eased progress at clamped elapsed time at
\* (both in clock units on the way in).
DurationOf(task) == Ms(IF task = IntroTask THEN IntroMs ELSE TopDownMs)
Eased(task, at) ==
    IF task = IntroTask
    THEN easeOutCubic(at \div EaseUnit, DurationOf(task) \div EaseUnit)
    ELSE easeInOutCubic(at \div EaseUnit, DurationOf(task) \div EaseUnit)
EasedOne(task) == Cube(DurationOf(task) \div EaseUnit)

\* The clamped elapsed times up to at.
Upto(at) == {a \in 0..at : a % EaseUnit = 0}

\* C21: the interpolation fraction of both camera animations is
\* elapsed/duration clamped to [0,1]; a frame at now = start leaves the start
\* value (eased progress 0), a frame at any now >= start + duration leaves
\* the end value exactly, and the eased progress never decreases as now
\* advances.
C21_EasedProgressExactAtEnds ==
    /\ [](camPos.kind = "lerp"
            => /\ camPos.at >= 0 /\ camPos.at < DurationOf(camPos.by)
               /\ Eased(camPos.by, camPos.at) >= 0
               /\ Eased(camPos.by, camPos.at) <= EasedOne(camPos.by)
               /\ \A a \in Upto(camPos.at) :
                     Eased(camPos.by, a) <= Eased(camPos.by, camPos.at))
    /\ [][(lastEvent'.kind = "animate" /\ TopDownActive)
             => LET k == topDownAnim
                    elapsed == now - tasks[k].t0
                IN /\ elapsed = 0 => (camPos' = LerpPose(k, 0) /\ Eased(k, 0) = 0)
                   /\ elapsed < DurationOf(k) => camPos' = LerpPose(k, elapsed)
                   /\ elapsed >= DurationOf(k)
                         => (camPos' = EndPose(k) /\ camQuat' = EndPose(k))]_vars
    /\ [][lastEvent'.kind = "introtick"
             => LET elapsed == now - introT0
                IN /\ elapsed < DurationOf(IntroTask) => camPos'.at = elapsed
                   /\ elapsed >= DurationOf(IntroTask) => camPos' = EndPose(IntroTask)]_vars

(***************************************************************************)
(* Page load (SpecBoot): init() of main.js from its first statement, with   *)
(* loadModel and loadAllCSV settling in between.  The variables of the      *)
(* panel, the pointer engine, the mode crossfade and the camera animations  *)
(* are not touched before init's last statements and are left alone here.   *)
(***************************************************************************)
BootStartValues ==
    /\ bootPc = "start"
    /\ progressPct = 0
    /\ progressLabel = ""
    /\ preloaderDone = FALSE
    /\ doneTimer = NoTimer
    /\ originOffset \in OriginOffsets
    /\ terrainLoaded = FALSE
    /\ wrapperPos = <<0, 0, 0>>
    /\ datasetsLoaded = 0
    /\ csvRows = NoRows
    /\ markers = NoRows
    /\ bootError = None
    /\ framings = 0
    /\ framedAfter = -1
    /\ bbox = TerrainBox
    /\ \E a \in Aspects : view = ConstructedView(a) /\ priorView = ConstructedView(a)

PageLoadInit == SceneInit /\ BootStartValues /\ WeatherIdle

BootTimeSteps == {Ms(400)}
ErrorDelayMs == 2000          \* delay of the setTimeout in init's catch
CompleteDelayMs == 400        \* delay of the setTimeout in hidePreloader

bootRest == <<sceneVars, openCalls, lastClose, closedBy, weatherVars>>

\* init() up to its first await: setProgress(5), createViewer,
\* setProgress(10), the call of loadModel.
BootStart ==
    /\ bootPc = "start"
    /\ bootPc' = "model"
    /\ progressPct' = 10
    /\ progressLabel' = "Loading 3D model"
    /\ lastEvent' = Ev("bootstart", NoPos, None)
    /\ UNCHANGED <<now, preloaderDone, doneTimer, originOffset, terrainLoaded, wrapperPos,
                   datasetsLoaded, csvRows, markers, bootError, framings, framedAfter,
                   frameVars, bootRest>>

\* The onProgress callback of loadModel: setProgress(10 + pct * 0.7, ...).
ModelProgress(pct) ==
    /\ bootPc = "model"
    /\ progressPct' = 10 + (pct * 7) \div 10
    /\ progressLabel' = "Loading model"
    /\ lastEvent' = Ev("modelprogress", NoPos, None)
    /\ UNCHANGED <<now, bootPc, preloaderDone, doneTimer, originOffset, terrainLoaded,
                   wrapperPos, datasetsLoaded, csvRows, markers, bootError, framings,
                   framedAfter, frameVars, bootRest>>

\* The catch block of init.
InitCatch(what) ==
    /\ bootPc' = "failed"
    /\ bootError' = what
    /\ progressPct' = 100
    /\ progressLabel' = ErrorLabel
    /\ doneTimer' = now + Ms(ErrorDelayMs)

\* loadModel resolves: the wrapper, moved by minus the origin offset, is in
\* the scene; init goes on to setProgress(80), frameBoundingBox,
\* setProgress(85) and the call of loadAllCSV.
ModelLoaded ==
    /\ bootPc = "model"
    /\ Subtractable(view.position, bbox.center)
    /\ terrainLoaded' = TRUE
    /\ wrapperPos' = WrapperPosition(originOffset)
    /\ priorView' = view
    /\ view' = frameBoundingBox(view, bbox)
    /\ framings' = framings + 1
    /\ framedAfter' = datasetsLoaded
    /\ progressPct' = 85
    /\ progressLabel' = "Loading data overlays"
    /\ bootPc' = "csv"
    /\ lastEvent' = Ev("modelloaded", NoPos, None)
    /\ UNCHANGED <<now, preloaderDone, doneTimer, originOffset, datasetsLoaded, csvRows,
                   markers, bootError, bbox, bootRest>>

\* loadModel rejects: a terrain texture (Promise.all of the two loadTex) or
\* the model file failed to load.  Nothing was added to the scene.
ModelFails(what) ==
    /\ bootPc = "model"
    /\ InitCatch(what)
    /\ lastEvent' = Ev("modelfails", NoPos, None)
    /\ UNCHANGED <<now, preloaderDone, originOffset, terrainLoaded, wrapperPos,
                   datasetsLoaded, csvRows, markers, framings, framedAfter,
                   frameVars, bootRest>>

\* loadCSVPoints of the next dataset gets its text, parsed into rows: a
\* group with one sprite per passing row is added to the scene.  After the
\* last dataset init runs to its end: labels, legend counts,
\* setProgress(95), setupTooltips, hidePreloader, animateIntro.
DatasetLoaded(rows) ==
    LET i == datasetsLoaded + 1
        last == i = Len(CsvFiles)
    IN /\ bootPc = "csv"
       /\ csvRows' = [csvRows EXCEPT ![i] = rows]
       /\ markers' = [markers EXCEPT ![i] = MarkersOf(rows, CsvFiles[i], originOffset)]
       /\ datasetsLoaded' = i
       /\ bootPc' = IF last THEN "interactive" ELSE "csv"
       /\ progressPct' = IF last THEN 100 ELSE progressPct
       /\ progressLabel' = IF last THEN CompleteLabel ELSE progressLabel
       /\ doneTimer' = IF last THEN now + Ms(CompleteDelayMs) ELSE doneTimer
       /\ lastEvent' = Ev("datasetloaded", NoPos, None)
       /\ UNCHANGED <<now, preloaderDone, originOffset, terrainLoaded, wrapperPos, bootError,
                      framings, framedAfter, frameVars, bootRest>>

\* The fetch of the next dataset rejects (network error).
DatasetFails ==
    /\ bootPc = "csv"
    /\ InitCatch("csv")
    /\ lastEvent' = Ev("datasetfails", NoPos, None)
    /\ UNCHANGED <<now, preloaderDone, originOffset, terrainLoaded, wrapperPos,
                   datasetsLoaded, csvRows, markers, framings, framedAfter,
                   frameVars, bootRest>>

\* The callback of the pending setTimeout: classList.add('done').
PreloaderTimeout ==
    /\ doneTimer # NoTimer
    /\ now >= doneTimer
    /\ preloaderDone' = TRUE
    /\ doneTimer' = NoTimer
    /\ lastEvent' = Ev("timeout", NoPos, None)
    /\ UNCHANGED <<now, bootPc, progressPct, progressLabel, originOffset, terrainLoaded,
                   wrapperPos, datasetsLoaded, csvRows, markers, bootError, framings,
                   framedAfter, frameVars, bootRest>>

BootAdvance(d) ==
    /\ now + d <= Ms(MaxBootTimeMs)
    /\ now' = now + d
    /\ lastEvent' = Ev("advance", NoPos, None)
    /\ UNCHANGED <<bootVars, frameVars, bootRest>>

BootNext ==
    \/ BootStart
    \/ \E pct \in {50, 100} : ModelProgress(pct)
    \/ ModelLoaded
    \/ \E what \in {"texture", "model"} : ModelFails(what)
    \/ \E rows \in RowLists : DatasetLoaded(rows)
    \/ DatasetFails
    \/ PreloaderTimeout
    \/ \E d \in BootTimeSteps : BootAdvance(d)

SpecBoot == PageLoadInit /\ [][BootNext]_vars

(***************************************************************************)
(* Claims about the coordinate pipeline and the page load.                  *)
(***************************************************************************)
\* Every marker in the scene, as <<dataset, index>>.
MarkerIds == {id \in (DOMAIN markers) \X (1..4) : id[2] \in DOMAIN markers[id[1]]}
MarkerAt(id) == markers[id[1]][id[2]]

\* C22 as stated: every marker sits at (x*k - offset.x, heightOffset,
\* -(y*k) - offset.z) for its survey coordinates (x, y): the y component is
\* the fixed per-marker lift whatever the origin offset is.
C22_LiftIgnoresOffset ==
    \A id \in MarkerIds :
        MarkerAt(id).pos = << FeetToScene(MarkerAt(id).coordX) - Metres(originOffset[1]),
                              Metres(heightOffset),
                              (0 - FeetToScene(MarkerAt(id).coordY)) - Metres(originOffset[3]) >>

\* C22, amended: every marker sits at (x*k - offset.x, heightOffset -
\* offset.y, -(y*k) - offset.z) for its survey coordinates (x, y); the same
\* coordinates give the same position, a point further north has the smaller
\* z, and y is the same for every marker of a load (the lift less the
\* offset's y), whatever the data.
C22_SceneCoordsOfSurveyPoint ==
    /\ \A id \in MarkerIds :
          MarkerAt(id).pos = << FeetToScene(MarkerAt(id).coordX) - Metres(originOffset[1]),
                                Metres(heightOffset) - Metres(originOffset[2]),
                                (0 - FeetToScene(MarkerAt(id).coordY)) - Metres(originOffset[3]) >>
    /\ \A a, b \in MarkerIds :
          /\ (MarkerAt(a).coordX = MarkerAt(b).coordX /\ MarkerAt(a).coordY = MarkerAt(b).coordY)
                => MarkerAt(a).pos = MarkerAt(b).pos
          /\ MarkerAt(a).coordY > MarkerAt(b).coordY => MarkerAt(a).pos[3] < MarkerAt(b).pos[3]
          /\ MarkerAt(a).pos[2] = MarkerAt(b).pos[2]

\* Markers of two datasets, one north of the other, are in the scene under
\* the shipped origin offset.
C22_Witness ==
    /\ originOffset = ConfigOffset
    /\ \E a, b \in MarkerIds :
          a[1] # b[1] /\ MarkerAt(a).coordY > MarkerAt(b).coordY


\* C23: the terrain and every overlay point get the same origin offset on
\* the horizontal axes: once loaded, the wrapper is translated by minus the
\* configured offset on x and z, and every marker of every dataset is where
\* its converted survey point lands under that same translation.
C23_SameOffsetForTerrainAndPoints ==
    terrainLoaded =>
       /\ wrapperPos[1] = 0 - Metres(originOffset[1])
       /\ wrapperPos[3] = 0 - Metres(originOffset[3])
       /\ \A id \in MarkerIds :
             /\ MarkerAt(id).pos[1] = FeetToScene(MarkerAt(id).coordX) + wrapperPos[1]
             /\ MarkerAt(id).pos[3] = (0 - FeetToScene(MarkerAt(id).coordY)) + wrapperPos[3]

\* The terrain and markers of all three datasets are in the scene, under the
\* shipped offset.
C23_Witness ==
    /\ terrainLoaded
    /\ originOffset = ConfigOffset
    /\ \A i \in DOMAIN markers : markers[i] # <<>>


(***************************************************************************)
(* Framing (SpecFrame): frameBoundingBox called on a camera and controls in *)
(* any state the viewer can have put them in, and the window's resize       *)
(* handler of viewer.js.                                                    *)
(***************************************************************************)
\* Camera positions and pivots before the call: the isometric start, a steep
\* view, and a view orbited down to the controls' polar limit.
PriorPositions == {IsoPosition, <<0, 8000, 6000>>, <<8000, 320, 0>>}
PriorTargets == {<<0, 0, 0>>, <<500, 0, 300>>}

FrameInit ==
    /\ SceneInit /\ LoadedInit /\ WeatherIdle
    /\ bbox \in Boxes
    /\ \E p \in PriorPositions, t \in PriorTargets, a \in Aspects :
          /\ view = [position |-> PlainPosition(p), target |-> t,
                     frustum |-> OrthoFrustum(orthoSize, a)]
          /\ priorView = view

frameRest == <<now, sceneVars, openCalls, lastClose, closedBy, bootVars, weatherVars>>

\* frameBoundingBox(object, camera, controls) for the object whose box is bbox.
FrameCall ==
    /\ Subtractable(view.position, bbox.center)
    /\ priorView' = view
    /\ view' = frameBoundingBox(view, bbox)
    /\ lastEvent' = Ev("framebox", NoPos, None)
    /\ UNCHANGED <<bbox, frameRest>>

\* The 'resize' listener for a container of aspect a: the frustum keeps its
\* height and takes the new aspect.
Resize(a) ==
    /\ priorView' = view
    /\ view' = [view EXCEPT !.frustum = OrthoFrustum(view.frustum.top, a)]
    /\ lastEvent' = Ev("resize", NoPos, None)
    /\ UNCHANGED <<bbox, frameRest>>

FrameNext ==
    \/ FrameCall
    \/ \E a \in Aspects : Resize(a)

SpecFrame == FrameInit /\ [][FrameNext]_vars

\* C24: after frameBoundingBox on the orthographic camera the half-height of
\* the frustum (top = -bottom) is the box's largest dimension times the zoom
\* padding, the aspect ratio (right - left) / (top - bottom) is the one the
\* frustum had before the call, and controls.target is the box's centre.
C24_FrustumFitsBoxKeepingAspect ==
    lastEvent.kind = "framebox" =>
       LET f == view.frustum
           g == priorView.frustum
       IN /\ 100 * f.top = Max3(bbox.size) * ZoomPadPct
          /\ f.bottom = 0 - f.top
          /\ (f.right - f.left) * (g.top - g.bottom) = (g.right - g.left) * (f.top - f.bottom)
          /\ f.right - f.left > 0
          /\ view.target = bbox.center

\* A call has changed the frustum's height and moved the pivot, on a
\* container that is not square.
C24_Witness ==
    /\ lastEvent.kind = "framebox"
    /\ view.frustum.top # priorView.frustum.top
    /\ view.target # priorView.target
    /\ view.frustum.right # view.frustum.top


\* The direction from the pivot to the camera, for a view the call of
\* frameBoundingBox started from or ended in.
ViewDirection(v) ==
    IF Subtractable(v.position, v.target)
        THEN DirectionFrom(v.position, v.target)
        ELSE Direction(<<0, 0, 0>>, FALSE)

\* C25: frameBoundingBox keeps the viewing direction: the direction between
\* the new camera position and the new pivot is the direction between the
\* old position and the old pivot, whatever the pivot was before the call.
C25_FramingKeepsViewDirection ==
    lastEvent.kind = "framebox" => ViewDirection(view) = ViewDirection(priorView)

C27_FramingOnceAfterAllLoads ==
    /\ framings <= 1
    /\ bootPc = "interactive" => framings = 1
    /\ framings >= 1 => (terrainLoaded /\ framedAfter = Len(CsvFiles))

\* C28: if the terrain model or a required texture fails to load,
\* initialization aborts and the loading-progress UI stays in its visible
\* error state for ever: the preloader is never dismissed, so the scene that
\* was being built is never exposed.
C28_LoadFailureKeepsErrorScreen ==
    bootError \in {"texture", "model"} =>
       /\ bootPc = "failed"
       /\ progressLabel = ErrorLabel
       /\ progressPct = 100
       /\ ~preloaderDone

\* A field that is a numeral and nothing else.
IsNumeric(f) == f.kind = "number"
NumericRow(row) == IsNumeric(row.X) /\ IsNumeric(row.Y)
RowIdsOf(ms) == [j \in DOMAIN ms |-> ms[j].row]

\* C29: for every dataset loaded there is exactly one marker per row whose X
\* and Y are both numeric, in row order, with the row's coordinates, and no
\* marker for any other row; a row that is not numeric does not stop the
\* load.
C29_OneMarkerPerNumericRow ==
    \A i \in 1..datasetsLoaded :
       LET good == SelectSeq(csvRows[i], NumericRow)
       IN /\ RowIdsOf(markers[i]) = RowIdsOf([j \in DOMAIN good |-> [row |-> good[j].id]])
          /\ \A j \in DOMAIN markers[i] :
                /\ markers[i][j].coordX = good[j].X.n
                /\ markers[i][j].coordY = good[j].Y.n


(***************************************************************************)
(* Weather data (SpecWeather): fetchWeather of apiWeather.js, one call at a *)
(* time, against a server that answers in any way.                          *)
(***************************************************************************)
WeatherUrls == {"", "https://weather.example/api"}
Statuses == {200, 204, 404, 500}
JsonBodies == {"json1", "json2"}
NullValue == "null"

\* How a call settled: the promise's fate, its value, res.status if a
\* response came, and the statement that ended the call.
Settlement(how, value, status, at) ==
    [how |-> how, value |-> value, status |-> status, at |-> at]

\* res.ok
ResponseOk(status) == status \in 200..299

\* An exception inside the try block: the catch logs it and returns null.
Uncaught(status, at) == Settlement("rejected", NullValue, status, at)

Caught(status, at) == Settlement("resolved", NullValue, status, at)

WeatherInit ==
    /\ SceneInit /\ LoadedInit /\ FramedInit
    /\ weatherUrl \in WeatherUrls
    /\ weatherPc = "idle"
    /\ weatherStatus = 0
    /\ weatherLog = <<>>

weatherRest == <<now, sceneVars, openCalls, lastClose, closedBy, bootVars, frameVars>>

Settle(s) ==
    /\ weatherLog' = Append(weatherLog, s)
    /\ weatherPc' = "idle"
    /\ weatherStatus' = 0

\* fetchWeather() up to its first await.
FetchWeatherCall ==
    /\ weatherPc = "idle"
    /\ Len(weatherLog) < MaxWeatherCalls
    /\ IF weatherUrl = ""
          THEN Settle(Settlement("resolved", NullValue, 0, "nourl"))
          ELSE /\ weatherPc' = "fetching"
               /\ UNCHANGED <<weatherStatus, weatherLog>>
    /\ lastEvent' = Ev("fetchweather", NoPos, None)
    /\ UNCHANGED <<weatherUrl, weatherRest>>

\* fetch() rejects: a network error.
FetchRejects ==
    /\ weatherPc = "fetching"
    /\ Settle(Caught(0, "fetch"))
    /\ lastEvent' = Ev("fetchrejects", NoPos, None)
    /\ UNCHANGED <<weatherUrl, weatherRest>>

\* fetch() resolves with a response: a status that is not OK is thrown,
\* otherwise the body is read.
FetchResponds(status) ==
    /\ weatherPc = "fetching"
    /\ IF ResponseOk(status)
          THEN /\ weatherPc' = "reading"
               /\ weatherStatus' = status
               /\ UNCHANGED weatherLog
          ELSE Settle(Caught(status, "status"))
    /\ lastEvent' = Ev("fetchresponds", NoPos, None)
    /\ UNCHANGED <<weatherUrl, weatherRest>>

\* res.json() resolves with the parsed body.
BodyParsed(body) ==
    /\ weatherPc = "reading"
    /\ Settle(Settlement("resolved", body, weatherStatus, "return"))
    /\ lastEvent' = Ev("bodyparsed", NoPos, None)
    /\ UNCHANGED <<weatherUrl, weatherRest>>

\* res.json() rejects: the body is not JSON (or empty).
BodyUnparsable ==
    /\ weatherPc = "reading"
    /\ Settle(Caught(weatherStatus, "json"))
    /\ lastEvent' = Ev("bodyunparsable", NoPos, None)
    /\ UNCHANGED <<weatherUrl, weatherRest>>

WeatherNext ==
    \/ FetchWeatherCall
    \/ FetchRejects
    \/ \E status \in Statuses : FetchResponds(status)
    \/ \E body \in JsonBodies : BodyParsed(body)
    \/ BodyUnparsable

SpecWeather == WeatherInit /\ [][WeatherNext]_vars

\* C30: fetchWeather never throws or rejects: with no URL configured, on a
\* network error, on a status that is not OK and on a body that cannot be
\* parsed it resolves to null, and it resolves to the parsed JSON only when
\* the fetch succeeded (a URL, an OK status, a parsed body).
C30_FetchWeatherNeverRejects ==
    \A i \in DOMAIN weatherLog :
       LET s == weatherLog[i]
       IN /\ s.how = "resolved"
          /\ s.at \in {"nourl", "fetch", "status", "json"} => s.value = NullValue
          /\ weatherUrl = "" => (s.value = NullValue /\ s.at = "nourl")
          /\ s.value # NullValue =>
                (s.at = "return" /\ s.value \in JsonBodies /\ s.status \in 200..299
                   /\ weatherUrl # "")

\* Calls have ended in a network error, on a bad status, on an unparsable
\* body and with parsed JSON.
C30_Witness ==
    /\ Len(weatherLog) = MaxWeatherCalls
    /\ \E i, j, k \in DOMAIN weatherLog :
          /\ weatherLog[i].at \in {"fetch", "json"}
          /\ weatherLog[j].at = "status"
          /\ weatherLog[k].at = "return"


(***************************************************************************)
(* Further claims about the detail panel and the click handler (SpecPanel). *)
(***************************************************************************)
\* The session-history entries that carry detailPanel state.
DetailEntries == {i \in DOMAIN hist : hist[i].detailPanel}

\* C35: handling a popstate event never pushes a history entry (the session
\* history is as the traversal found it), and after any sequence of open,
\* close, back and forward operations at most one entry of the session
\* history carries detailPanel state.
C35_PopstateNeverPushes ==
    /\ [][lastEvent'.kind \in {"back", "forward"} => hist' = hist]_vars
    /\ [](Cardinality(DetailEntries) <= 1)


(***************************************************************************)
(* The detail panel through its exported functions (SpecPanelApi):          *)
(* openDetail and closeDetail called by any importer, in any order and at   *)
(* any time.                                                                *)
(***************************************************************************)
\* openDetail(payload), called from outside the module.
OpenDetailCall(payload) ==
    /\ RoomToPush(histIdx)
    /\ SetPanel(openDetail(Panel, payload))
    /\ openCalls' = <<payload>>
    /\ lastEvent' = Ev("openDetail", NoPos, IF isOpen THEN "open" ELSE "closed")
    /\ UNCHANGED <<loadVars, now, camVars, animVars, hoverVars, modeVars, pointerVars,
                   lastClose, closedBy>>

\* closeDetail(), called from outside the module.
CloseDetailCall ==
    /\ LET P == closeDetail(Panel, now)
       IN /\ SetPanel(P)
          /\ ObserveClose(P, "explicit")
    /\ openCalls' = <<>>
    /\ lastEvent' = Ev("closeDetail", NoPos, IF isOpen THEN "open" ELSE "closed")
    /\ UNCHANGED <<loadVars, now, camVars, animVars, hoverVars, modeVars, pointerVars>>

PanelApiNext ==
    \/ \E payload \in Types \cup {ImageObject} : OpenDetailCall(payload)
    \/ CloseDetailCall
    \/ \E d \in TimeSteps : Advance(d)

SpecPanelApi == Init /\ [][PanelApiNext]_vars

\* C40: closeDetail called while the panel is not open changes neither
\* isOpen nor the panel's 'hidden' class nor closedAt, so a repeated close
\* leaves justClosed as it was; and in every state isOpen holds exactly when
\* the panel lacks the 'hidden' class.
C40_CloseWhenClosedIsNoOp ==
    /\ [][(lastEvent'.kind = "closeDetail" /\ ~isOpen)
             => /\ UNCHANGED <<isOpen, panelHidden, closedAt>>
                /\ \A ms \in MsValues : justClosed(ms)' = justClosed(ms)]_vars
    /\ [](isOpen <=> ~panelHidden)

\* The panel was closed, time passed, and closeDetail has been called again.
C40_Witness ==
    /\ lastEvent.kind = "closeDetail"
    /\ lastEvent.target = "closed"
    /\ lastClose >= 0
    /\ now > closedAt
    /\ justClosed(DefaultMs)


\* C37: every pointer-up is classified against the position of the
\* pointer-down that began the same press: when the pointerup handler runs,
\* the recorded pointerDownPos is where the current press went down, also
\* for a press whose pointer-down an overlay element consumed.
C37_DragTestUsesOwnPress ==
    [][lastEvent'.kind = "pointerup" => pointerDownPos = pressPos]_vars


(***************************************************************************)
(* Further claims about the camera animations (SpecCamera).                 *)
(***************************************************************************)
\* C34: in every state controls.enabled is false exactly when a top-down
\* task exists that is not done; a double-click makes both so together, and
\* the frame that completes the task re-enables the controls as it marks the
\* task done.
C34_ControlsDisabledIffTopDownPending ==
    /\ [](~controlsEnabled <=> NotDone # {})
    /\ [](~controlsEnabled <=> TopDownActive)
    /\ [][lastEvent'.kind = "dblclick" => (~controlsEnabled' /\ TopDownActive')]_vars
    /\ [][(lastEvent'.kind = "animate" /\ TopDownActive /\ ~TopDownActive')
             => (~controlsEnabled /\ controlsEnabled')]_vars
    /\ [][controlsEnabled' # controlsEnabled => TopDownActive' # TopDownActive]_vars

\* A task was superseded by a second double-click and the second task has
\* completed in a frame: the controls are enabled again.
C34_Witness ==
    /\ Len(tasks) = 2
    /\ tasks[2].t0 < tasks[1].t0 + Ms(TopDownMs)
    /\ tasks[2].done
    /\ lastFinished = 2
    /\ controlsEnabled


(***************************************************************************)
(* Further claims about hovering and the sprite tick (SpecHover).           *)
(***************************************************************************)
\* The target of a marker in a tick with base size base, and whether the
\* tick's interpolation step brings the marker within 0.0001 of it.
TickGoal(s, base) == IF s = hoveredSprite THEN HoverTarget(base) ELSE base
TickArrives(s, base) == Abs(Lerp(scale[s], TickGoal(s, base)) - TickGoal(s, base)) < ScaleEps

\* C32 as stated: in a tick every marker of the animating set whose scale
\* comes within 0.0001 of its target (base * 1.5 if hovered, base otherwise)
\* is pinned exactly to the target and removed from the set in that tick.
C32_ArrivedMarkerPinnedAndRemoved ==
    [][lastEvent'.kind = "frame" =>
          \A s \in animating :
             TickArrives(s, BaseSizeFor(frustumH'))
                => /\ scale'[s] = TickGoal(s, BaseSizeFor(frustumH'))
                   /\ s \notin animating']_vars

\* C32, amended: every such marker is pinned exactly to its target in that
\* tick; it is removed from the set in that tick if it is not the hovered
\* marker, and the hovered marker stays in the set.  A marker that does not
\* come within 0.0001 is neither pinned nor removed.
C32_ArrivedMarkerPinnedAndReleasedUnlessHovered ==
    [][lastEvent'.kind = "frame" =>
          \A s \in animating :
             LET base == BaseSizeFor(frustumH')
             IN IF TickArrives(s, base)
                THEN /\ scale'[s] = TickGoal(s, base)
                     /\ s \notin animating' <=> s # hoveredSprite
                ELSE /\ scale'[s] = Lerp(scale[s], TickGoal(s, base))
                     /\ s \in animating']_vars

\* After a tick the hovered marker is pinned to the hover target and still
\* in the set, while a marker hovered before has been released at base size.
C32_Witness ==
    /\ lastEvent.kind = "frame"
    /\ hoveredSprite # None
    /\ hoveredSprite \in animating
    /\ scale[hoveredSprite] = HoverTarget(getBaseSize)
    /\ animating = {hoveredSprite}
    /\ tooltip # None


\* The markers that are hovered.
HoveredMarkers == {s \in Sprites : s = hoveredSprite}

\* C38: after every pointermove and every tick at most one marker is hovered
\* and the hovered marker, if any, is in the animating set; after every tick
\* each marker outside the set has exactly the current base size.
C38_HoveredIsAnimatingAndIdleAtBase ==
    /\ [](lastEvent.kind \in {"pointermove", "frame"}
             => /\ Cardinality(HoveredMarkers) <= 1
                /\ HoveredMarkers \subseteq animating)
    /\ [](lastEvent.kind = "frame"
             => \A s \in Sprites \ animating : scale[s] = getBaseSize)

\* A tick under a changed frustum height with one marker hovered and
\* growing, one released in this tick and the idle ones at the new base.
C38_Witness ==
    /\ lastEvent.kind = "frame"
    /\ frustumH # InitialFrustumH
    /\ hoveredSprite # None
    /\ animating = {hoveredSprite}
    /\ scale[hoveredSprite] # getBaseSize
    /\ \A s \in Sprites \ animating : scale[s] = getBaseSize


\* Every tick changes the camera, the frustum height, a scale, the animating
\* set or the last event.
tickClock == <<cam, frustumH, scale, animating, lastEvent>>

\* Pointer positions of the fair runs: with the two camera poses they hover
\* two markers of different categories and miss.
FairPositions == {p \in Positions : \A c \in Cams : RayHit(p, c) \in {"s1", "s2", None}}

HoverFairNext ==
    \/ \E p \in FairPositions : PointerMove(p)
    \/ \E c \in Cams, h \in FrustumHs : Frame(c, h)

\* The same program when the render loop keeps delivering frames.
SpecHoverFair ==
    /\ Init /\ [][HoverFairNext]_vars
    /\ WF_tickClock(\E c \in Cams, h \in FrustumHs : Frame(c, h))

\* C39: a marker of the animating set that is not hovered is eventually out
\* of the set with exactly the base size, unless it is hovered again or the
\* frustum height (top - bottom) / zoom changes first.
C39_UnhoveredMarkerEventuallyReleased ==
    \A s \in Sprites, h \in FrustumHs :
       (s \in animating /\ s # hoveredSprite /\ frustumH = h)
          ~> \/ s \notin animating /\ scale[s] = getBaseSize
             \/ s = hoveredSprite
             \/ frustumH # h

\* A marker that is no longer hovered is part-way back to the base size.
C39_Witness ==
    /\ lastEvent.kind = "frame"
    /\ \E s \in animating :
          /\ s # hoveredSprite
          /\ scale[s] > getBaseSize + ScaleEps
          /\ scale[s] < HoverTarget(getBaseSize)


(***************************************************************************)
(* The legend of main.js: each legend dot toggles the visibility of one     *)
(* dataset's marker group.  The markers stay in the scene graph, and the    *)
(* raycasts of the pointer handlers test every object of scene.children     *)
(* whatever its visible flag is.                                            *)
(***************************************************************************)
\* init() has run to its end with the same non-empty data file for every
\* dataset: the groups hold the markers made of its rows.
LegendInit ==
    /\ SceneInit /\ FramedInit /\ WeatherIdle
    /\ bootPc = "interactive"
    /\ progressPct = 100
    /\ progressLabel = CompleteLabel
    /\ preloaderDone = TRUE
    /\ doneTimer = NoTimer
    /\ originOffset = ConfigOffset
    /\ terrainLoaded = TRUE
    /\ wrapperPos = WrapperPosition(ConfigOffset)
    /\ datasetsLoaded = Len(CsvFiles)
    /\ \E rows \in RowLists \ {<<>>} : csvRows = [i \in DOMAIN CsvFiles |-> rows]
    /\ markers = [i \in DOMAIN CsvFiles |-> MarkersOf(csvRows[i], CsvFiles[i], originOffset)]
    /\ bootError = None
    /\ framings = 1
    /\ framedAfter = 0

LegendClick_All(g) ==
    /\ legendFlag' = [legendFlag EXCEPT ![g] = ~legendFlag[g]]
    /\ groupVisible' = [h \in Groups |-> legendFlag'[g]]
    /\ visBefore' = groupVisible
    /\ lastEvent' = Ev("legendclick", NoPos, g)
    /\ openCalls' = <<>>
    /\ UNCHANGED <<now, camVars, animVars, panelVars, pointerVars, hoverVars, modeVars,
                   lastClose, closedBy, bootVars, frameVars, weatherVars, markerMap>>

\* 'click' listener of the legend dot of dataset g (Enter and Space on the
\* dot call dot.click()).
LegendClick(g) ==
    /\ legendFlag' = [legendFlag EXCEPT ![g] = ~legendFlag[g]]
    /\ groupVisible' = [groupVisible EXCEPT ![g] = legendFlag'[g]]
    /\ visBefore' = groupVisible
    /\ lastEvent' = Ev("legendclick", NoPos, g)
    /\ openCalls' = <<>>
    /\ UNCHANGED <<now, camVars, animVars, panelVars, pointerVars, hoverVars, modeVars,
                   lastClose, closedBy, bootVars, frameVars, weatherVars, markerMap>>

LegendNext ==
    \/ \E g \in Groups : LegendClick(g)
    \/ \E p \in Positions : PointerMove(p)
    \/ \E p \in Positions : WindowPointerDown(p, "canvas")
    \/ \E p \in Positions : PointerUp(p, "canvas")

SpecLegend == LegendInit /\ [][LegendNext]_vars

(***************************************************************************)
(* Claims about the legend (SpecLegend).                                   *)
(***************************************************************************)
\* The position of every marker in the scene.
MarkerPositions == [id \in MarkerIds |-> MarkerAt(id).pos]

\* C31: a legend click on one dataset flips the visible flag of that
\* dataset's group only and leaves every other group's flag and all marker
\* positions unchanged; a second click on the same dataset right after it
\* restores the flags.
C31_LegendToggleFlipsOneGroup ==
    /\ [][lastEvent'.kind = "legendclick" =>
             /\ groupVisible'[lastEvent'.target] = ~groupVisible[lastEvent'.target]
             /\ \A g \in Groups \ {lastEvent'.target} : groupVisible'[g] = groupVisible[g]
             /\ MarkerPositions' = MarkerPositions]_vars
    /\ [][(/\ lastEvent.kind = "legendclick"
            /\ lastEvent'.kind = "legendclick"
            /\ lastEvent'.target = lastEvent.target)
              => /\ groupVisible' = visBefore
                 /\ legendFlag' = [g \in Groups |-> visBefore[g]]]_vars

\* The second of two clicks on one dot has made a hidden group visible again
\* while another group stays hidden; the groups hold markers.
C31_Witness ==
    /\ lastEvent.kind = "legendclick"
    /\ groupVisible[lastEvent.target]
    /\ visBefore # groupVisible
    /\ \E g \in Groups : ~groupVisible[g]
    /\ MarkerIds # {}


\* Is the marker s (None: no marker) in a group whose visible flag is false?
Hidden(s) == s # None /\ ~groupVisible[SpriteType(s)]

\* C36: while a group's visible flag is false no pointermove makes one of its
\* markers the hovered marker or its category the hovered category, and no
\* click on one of its markers calls openDetail.
C36_HiddenMarkersNotPicked ==
    /\ [][lastEvent'.kind = "pointermove" =>
             /\ ~Hidden(hoveredSprite')
             /\ activeType' # None => groupVisible[activeType']]_vars
    /\ [][(lastEvent'.kind = "pointerup" /\ Hidden(RayHit(lastEvent'.pos, cam)))
             => openCalls' = <<>>]_vars


(***************************************************************************)
(* The marker textures in the mode crossfade (SpecMode).  loadCSVPoints     *)
(* gives each group's material its light dot texture and returns the dark   *)
(* one; tickModeFrame and setModeProgress write the background, the terrain *)
(* blend and the building and side colours only.                            *)
(***************************************************************************)
\* C33: whenever the mode scalar has settled at 1 every marker group's
\* material uses its dark dot texture, and whenever it has settled at 0 its
\* light dot texture.
C33_MarkerTextureFollowsMode ==
    (modeRafId = NoRaf /\ lastEvent.kind = "modeframe")
       => \A g \in Groups :
             /\ modeT = ModeOne => markerMap[g] = "darkTex"
             /\ modeT = 0 => markerMap[g] = "lightTex"

====
